---- MODULE Spec2Model ----
(***************************************************************************)
(* Model of the validation engine the notebooks of Pydantic-with-GiGi      *)
(* drive: every notebook declares BaseModel classes (the schemas) and      *)
(* builds instances from keyword arguments (the raw input).  One           *)
(* construction of an instance is one validate call; the class statement   *)
(* (decl) is run first and defines the schema.  The semantics of a         *)
(* call are those the notebooks' recorded outputs show for pydantic 2.11   *)
(* (the version named in every recorded error message).                    *)
(*                                                                         *)
(* Values are records [k, n, s]: k is the run-time type, n the numeric     *)
(* payload, s the characters of a string.  Floats are fixed-point          *)
(* hundredths (899.99 is 89999); dates are the number yyyymmdd; datetimes  *)
(* are whole seconds since 2000-01-01T00:00:00; strings are sequences of   *)
(* one-character strings.                                                  *)
(***************************************************************************)
EXTENDS Integers, Sequences, FiniteSets, TLC

VARIABLES decl, schema, input, pc, fi, stage, vi, cur, errors, record, result,
          log, calls, clock, held, other

vars == <<decl, schema, input, pc, fi, stage, vi, cur, errors, record, result,
          log, calls, clock, held, other>>

\* Number of validate calls made on one schema in one behaviour.
MaxCalls == 2

(***************************************************************************)
(* Values                                                                  *)
(***************************************************************************)
V(k, n, s) == [k |-> k, n |-> n, s |-> s]
IntV(n) == V("int", n, <<>>)
FloatV(c) == V("float", c, <<>>)
BoolV(b) == V("bool", IF b THEN 1 ELSE 0, <<>>)
StrV(s) == V("str", 0, s)
DateV(d) == V("date", d, <<>>)
DatetimeV(t) == V("datetime", t, <<>>)
NoneV == V("none", 0, <<>>)
ListV == V("list", 0, <<>>)
\* A field the input mapping has no key for.
Absent == V("absent", 0, <<>>)
\* The whole input mapping, as the input_value of a model-level error.
WholeInput == V("dict", 0, input)

(***************************************************************************)
(* Strings (str methods used by the notebooks' validators and by the       *)
(* string-to-number parsers)                                               *)
(***************************************************************************)
UpperChars == <<"A","B","C","D","E","F","G","H","I","J","K","L","M",
                "N","O","P","Q","R","S","T","U","V","W","X","Y","Z">>
LowerChars == <<"a","b","c","d","e","f","g","h","i","j","k","l","m",
                "n","o","p","q","r","s","t","u","v","w","x","y","z">>
DigitChars == <<"0","1","2","3","4","5","6","7","8","9">>

InSeq(c, sq) == \E i \in 1..Len(sq) : sq[i] = c
IndexOf(c, sq) == CHOOSE i \in 1..Len(sq) : sq[i] = c

IsUpper(c) == InSeq(c, UpperChars)
IsLower(c) == InSeq(c, LowerChars)
IsDigit(c) == InSeq(c, DigitChars)
IsSpace(c) == c = " "
DigitVal(c) == IndexOf(c, DigitChars) - 1
LowerChar(c) == IF IsUpper(c) THEN LowerChars[IndexOf(c, UpperChars)] ELSE c

\* str.lower()
Lower(s) == [i \in 1..Len(s) |-> LowerChar(s[i])]

\* str.strip(): drop leading and trailing whitespace
RECURSIVE LStrip(_)
LStrip(s) == IF s # <<>> /\ IsSpace(Head(s)) THEN LStrip(Tail(s)) ELSE s
RECURSIVE RStrip(_)
RStrip(s) == IF s # <<>> /\ IsSpace(s[Len(s)])
             THEN RStrip(SubSeq(s, 1, Len(s) - 1)) ELSE s
Strip(s) == RStrip(LStrip(s))

\* str.isalnum(): non-empty, letters and digits only
IsAlnum(s) == s # <<>> /\ \A i \in 1..Len(s) : IsUpper(s[i]) \/ IsLower(s[i]) \/ IsDigit(s[i])

\* str.istitle(): at least one cased character, an uppercase character only
\* after an uncased one and a lowercase character only after a cased one
IsCased(c) == IsUpper(c) \/ IsLower(c)
IsTitle(s) ==
    /\ \E i \in 1..Len(s) : IsCased(s[i])
    /\ \A i \in 1..Len(s) :
        LET prevCased == i > 1 /\ IsCased(s[i - 1])
        IN  /\ IsUpper(s[i]) => ~prevCased
            /\ IsLower(s[i]) => prevCased

AllDigits(s) == s # <<>> /\ \A i \in 1..Len(s) : IsDigit(s[i])

RECURSIVE DigitsValue(_)
DigitsValue(s) == IF s = <<>> THEN 0
                  ELSE 10 * DigitsValue(SubSeq(s, 1, Len(s) - 1)) + DigitVal(s[Len(s)])

\* An optional sign in front of the digits.
HasSign(s) == s # <<>> /\ Head(s) \in {"+", "-"}
Unsigned(s) == IF HasSign(s) THEN Tail(s) ELSE s
SignOf(s) == IF s # <<>> /\ Head(s) = "-" THEN -1 ELSE 1

\* "  101 " parses as an int: whitespace-trimmed, optional sign, digits.
IsIntString(s) == AllDigits(Unsigned(Strip(s)))
ParseInt(s) == SignOf(Strip(s)) * DigitsValue(Unsigned(Strip(s)))

\* "599.99" parses as a float: digits, optionally a point and one or two
\* more digits (the fixed-point precision of the model).
DotAt(s) == IF InSeq(".", s) THEN IndexOf(".", s) ELSE 0
IsFloatString(s) ==
    LET u == Unsigned(Strip(s))
        d == DotAt(u)
    IN  IF d = 0 THEN AllDigits(u)
        ELSE /\ AllDigits(SubSeq(u, 1, d - 1))
             /\ AllDigits(SubSeq(u, d + 1, Len(u)))
             /\ Len(u) - d <= 2
ParseFloat(s) ==
    LET t == Strip(s)
        u == Unsigned(t)
        d == DotAt(u)
        frac == SubSeq(u, d + 1, Len(u))
    IN  IF d = 0 THEN SignOf(t) * 100 * DigitsValue(u)
        ELSE SignOf(t) * (100 * DigitsValue(SubSeq(u, 1, d - 1))
                          + (IF Len(frac) = 1 THEN 10 ELSE 1) * DigitsValue(frac))

\* "2025-07-01": ISO-8601 calendar date
DaysIn(y, m) == IF m \in {4, 6, 9, 11} THEN 30
                ELSE IF m = 2
                     THEN (IF (y % 4 = 0 /\ y % 100 # 0) \/ y % 400 = 0 THEN 29 ELSE 28)
                     ELSE 31
IsDateString(s) ==
    /\ Len(s) = 10
    /\ s[5] = "-" /\ s[8] = "-"
    /\ AllDigits(SubSeq(s, 1, 4)) /\ AllDigits(SubSeq(s, 6, 7)) /\ AllDigits(SubSeq(s, 9, 10))
    /\ LET y == DigitsValue(SubSeq(s, 1, 4))
           m == DigitsValue(SubSeq(s, 6, 7))
           d == DigitsValue(SubSeq(s, 9, 10))
       IN  y >= 1 /\ m \in 1..12 /\ d \in 1..DaysIn(y, m)
ParseDate(s) == 10000 * DigitsValue(SubSeq(s, 1, 4))
                + 100 * DigitsValue(SubSeq(s, 6, 7))
                + DigitsValue(SubSeq(s, 9, 10))

\* "2025-08-01T12:00:00": ISO-8601 date and time, counted in seconds since
\* 2000-01-01T00:00:00
LeapsUpTo(y) == y \div 4 - y \div 100 + y \div 400
DaysBeforeYear(y) == 365 * (y - 2000) + LeapsUpTo(y - 1) - LeapsUpTo(1999)
RECURSIVE DaysBeforeMonth(_, _)
DaysBeforeMonth(y, m) == IF m = 1 THEN 0 ELSE DaysBeforeMonth(y, m - 1) + DaysIn(y, m - 1)
Seconds(y, m, d, hh, mi, ss) ==
    86400 * (DaysBeforeYear(y) + DaysBeforeMonth(y, m) + d - 1) + 3600 * hh + 60 * mi + ss
IsTimeString(s) ==
    /\ Len(s) = 8
    /\ s[3] = ":" /\ s[6] = ":"
    /\ AllDigits(SubSeq(s, 1, 2)) /\ AllDigits(SubSeq(s, 4, 5)) /\ AllDigits(SubSeq(s, 7, 8))
    /\ DigitsValue(SubSeq(s, 1, 2)) \in 0..23
    /\ DigitsValue(SubSeq(s, 4, 5)) \in 0..59
    /\ DigitsValue(SubSeq(s, 7, 8)) \in 0..59
IsDatetimeString(s) ==
    /\ Len(s) = 19
    /\ s[11] = "T"
    /\ IsDateString(SubSeq(s, 1, 10))
    /\ IsTimeString(SubSeq(s, 12, 19))
ParseDatetime(s) ==
    Seconds(DigitsValue(SubSeq(s, 1, 4)), DigitsValue(SubSeq(s, 6, 7)), DigitsValue(SubSeq(s, 9, 10)),
            DigitsValue(SubSeq(s, 12, 13)), DigitsValue(SubSeq(s, 15, 16)), DigitsValue(SubSeq(s, 18, 19)))
\* Midnight of the date yyyymmdd
MidnightOf(d) == Seconds(d \div 10000, (d \div 100) % 100, d % 100, 0, 0, 0)

\* The strings a bool field accepts, compared case-insensitively.
TrueStrings == { <<"t","r","u","e">>, <<"1">>, <<"y","e","s">>, <<"o","n">>, <<"t">>, <<"y">> }
FalseStrings == { <<"f","a","l","s","e">>, <<"0">>, <<"n","o">>, <<"o","f","f">>, <<"f">>, <<"n">> }

(***************************************************************************)
(* Type coercion: what a field of a declared type makes of a raw value.    *)
(* The outcome is [ok, v]: the coerced value, or a failure.                *)
(***************************************************************************)
Coerced(v) == [ok |-> TRUE, v |-> v]
NotCoerced == [ok |-> FALSE, v |-> NoneV]

\* CoerceInt with no case for a bool or a float.
CoerceIntStrict(v) ==
    CASE v.k = "int" -> Coerced(v)
      [] v.k = "str" -> IF IsIntString(v.s) THEN Coerced(IntV(ParseInt(v.s))) ELSE NotCoerced
      [] OTHER -> NotCoerced

\* int: an int; a string of digits ("101"); a bool; a float with no
\* fractional part.
CoerceInt(v) ==
    CASE v.k = "int" -> Coerced(v)
      [] v.k = "bool" -> Coerced(IntV(v.n))
      [] v.k = "float" -> IF v.n % 100 = 0 THEN Coerced(IntV(v.n \div 100)) ELSE NotCoerced
      [] v.k = "str" -> IF IsIntString(v.s) THEN Coerced(IntV(ParseInt(v.s))) ELSE NotCoerced
      [] OTHER -> NotCoerced

\* CoerceFloat with no case for a number of another type.
CoerceFloatStrict(v) ==
    CASE v.k = "float" -> Coerced(v)
      [] v.k = "str" -> IF IsFloatString(v.s) THEN Coerced(FloatV(ParseFloat(v.s))) ELSE NotCoerced
      [] OTHER -> NotCoerced

\* float: a float; an int (price=0, price=-50); a numeric string ("599.99");
\* a bool.
CoerceFloat(v) ==
    CASE v.k = "float" -> Coerced(v)
      [] v.k = "int" -> Coerced(FloatV(100 * v.n))
      [] v.k = "bool" -> Coerced(FloatV(100 * v.n))
      [] v.k = "str" -> IF IsFloatString(v.s) THEN Coerced(FloatV(ParseFloat(v.s))) ELSE NotCoerced
      [] OTHER -> NotCoerced

\* CoerceBool comparing the string as it is, upper-case letters and all.
CoerceBoolCaseSensitive(v) ==
    CASE v.k = "bool" -> Coerced(v)
      [] v.k = "int" -> IF v.n \in {0, 1} THEN Coerced(BoolV(v.n = 1)) ELSE NotCoerced
      [] v.k = "float" -> IF v.n \in {0, 100} THEN Coerced(BoolV(v.n = 100)) ELSE NotCoerced
      [] v.k = "str" -> IF v.s \in TrueStrings THEN Coerced(BoolV(TRUE))
                        ELSE IF v.s \in FalseStrings THEN Coerced(BoolV(FALSE))
                        ELSE NotCoerced
      [] OTHER -> NotCoerced

\* bool: a bool; the numbers 0 and 1; the strings of TrueStrings and
\* FalseStrings in any letter case ("false" -> False)
CoerceBool(v) ==
    CASE v.k = "bool" -> Coerced(v)
      [] v.k = "int" -> IF v.n \in {0, 1} THEN Coerced(BoolV(v.n = 1)) ELSE NotCoerced
      [] v.k = "float" -> IF v.n \in {0, 100} THEN Coerced(BoolV(v.n = 100)) ELSE NotCoerced
      [] v.k = "str" -> IF Lower(v.s) \in TrueStrings THEN Coerced(BoolV(TRUE))
                        ELSE IF Lower(v.s) \in FalseStrings THEN Coerced(BoolV(FALSE))
                        ELSE NotCoerced
      [] OTHER -> NotCoerced

\* str: a str only (1234 is not turned into "1234")
CoerceStr(v) == IF v.k = "str" THEN Coerced(v) ELSE NotCoerced

\* CoerceDate taking ISO strings only.
CoerceDateStringsOnly(v) ==
    IF v.k = "str" /\ IsDateString(v.s) THEN Coerced(DateV(ParseDate(v.s))) ELSE NotCoerced

\* date: a date; an ISO string ("2025-07-01").  Numeric timestamps are not
\* among the raw values the model offers a date field.
CoerceDate(v) ==
    CASE v.k = "date" -> Coerced(v)
      [] v.k = "str" -> IF IsDateString(v.s) THEN Coerced(DateV(ParseDate(v.s))) ELSE NotCoerced
      [] OTHER -> NotCoerced

\* datetime: a datetime; an ISO string ("2025-08-01T12:00:00"); a date, as
\* its midnight.
CoerceDatetime(v) ==
    CASE v.k = "datetime" -> Coerced(v)
      [] v.k = "date" -> Coerced(DatetimeV(MidnightOf(v.n)))
      [] v.k = "str" -> IF IsDatetimeString(v.s) THEN Coerced(DatetimeV(ParseDatetime(v.s))) ELSE NotCoerced
      [] OTHER -> NotCoerced

CoerceTo(type, v) ==
    CASE type = "int" -> CoerceInt(v)
      [] type = "float" -> CoerceFloat(v)
      [] type = "bool" -> CoerceBool(v)
      [] type = "str" -> CoerceStr(v)
      [] type = "date" -> CoerceDate(v)
      [] type = "datetime" -> CoerceDatetime(v)

\* Coerce with no case for None.
CoerceIgnoringOptional(f, v) == CoerceTo(f.type, v)

\* Optional[T]: None stays None, anything else is coerced as T.
Coerce(f, v) == IF f.opt /\ v.k = "none" THEN Coerced(NoneV) ELSE CoerceTo(f.type, v)

\* A value is of a field's declared type.
HasType(f, v) == (f.opt /\ v.k = "none") \/ v.k = f.type

(***************************************************************************)
(* Constraints declared with Field(...)                                    *)
(***************************************************************************)
\* pattern=r"^\S+@\S+\.\S+$"
EmailPattern == 1
\* pattern=r"^\+91-\d{10}$"
PhonePattern == 2
\* r"\d", the digit rule of check_password_strength
DigitPattern == 3

NonSpace(s, a, b) == a <= b /\ \A i \in a..b : ~IsSpace(s[i])

\* ^\S+@\S+\.\S+$ : some "@" and a later "." split the string into three
\* non-empty runs of non-whitespace characters.
MatchesEmail(s) ==
    \E i \in 1..Len(s) : \E j \in 1..Len(s) :
        /\ s[i] = "@" /\ s[j] = "."
        /\ NonSpace(s, 1, i - 1) /\ NonSpace(s, i + 1, j - 1) /\ NonSpace(s, j + 1, Len(s))

\* ^\+91-\d{10}$
MatchesPhone(s) ==
    /\ Len(s) = 14
    /\ SubSeq(s, 1, 4) = <<"+", "9", "1", "-">>
    /\ AllDigits(SubSeq(s, 5, 14))

\* The whole of s is a match of what the pattern has between its anchors.
FullMatch(p, s) ==
    CASE p = EmailPattern -> MatchesEmail(s)
      [] p = PhonePattern -> MatchesPhone(s)
      [] p = DigitPattern -> Len(s) = 1 /\ IsDigit(s[1])

\* Matches asking the whole string to match, anchors or not.
MatchesAnchored(p, s) == FullMatch(p, s)

\* The engine searches the string for a match: a pattern written with ^ and
\* $ takes the whole string, any other is satisfied by a matching part.
Matches(p, s) ==
    IF p \in {EmailPattern, PhonePattern} THEN FullMatch(p, s)
    ELSE \E a \in 1..Len(s) : \E b \in a..Len(s) : FullMatch(p, SubSeq(s, a, b))

\* Violates with gt and lt letting the bound itself through.
ViolatesInclusive(c, b, v) ==
    CASE c = "gt" -> ~(v.n >= b)
      [] c = "ge" -> ~(v.n >= b)
      [] c = "lt" -> ~(v.n <= b)
      [] c = "le" -> ~(v.n <= b)
      [] c = "min_length" -> Len(v.s) < b
      [] c = "max_length" -> Len(v.s) > b
      [] c = "pattern" -> ~Matches(b, v.s)

\* The value v of a field breaks the constraint c with bound b.
Violates(c, b, v) ==
    CASE c = "gt" -> ~(v.n > b)
      [] c = "ge" -> ~(v.n >= b)
      [] c = "lt" -> ~(v.n < b)
      [] c = "le" -> ~(v.n <= b)
      [] c = "min_length" -> Len(v.s) < b
      [] c = "max_length" -> Len(v.s) > b
      [] c = "pattern" -> ~Matches(b, v.s)

ErrorKind(c) ==
    CASE c \in {"gt", "ge", "lt", "le"} -> "RangeError"
      [] c \in {"min_length", "max_length"} -> "LengthError"
      [] c = "pattern" -> "PatternError"

\* The order in which the engine looks at the constraints of one field.
ConstraintOrder == <<"le", "lt", "ge", "gt", "min_length", "max_length", "pattern">>

\* The declared constraints of f that v breaks.  None carries no constraint
\* of the inner type.
Violated(f, v) == IF v.k = "none" THEN {} ELSE {c \in f.cons : Violates(c.c, c.b, v)}

\* CheckConstraints going on after a broken constraint: every broken
\* constraint is reported, in ConstraintOrder.
CheckConstraintsAll(f, v) ==
    LET bad == IF v.k = "none" THEN {} ELSE {c \in f.cons : Violates(c.c, c.b, v)}
        Broken(k) == \E c \in bad : c.c = k
        ks == SelectSeq(ConstraintOrder, Broken)
    IN  [i \in 1..Len(ks) |-> CHOOSE c \in bad : c.c = ks[i]]

\* The constraints the evaluator reports for v: it returns at the first
\* broken constraint, in ConstraintOrder, so at most one is reported.
CheckConstraints(f, v) ==
    LET bad == Violated(f, v)
        pos(c) == IndexOf(c.c, ConstraintOrder)
    IN  IF bad = {} THEN <<>>
        ELSE <<CHOOSE c \in bad : \A d \in bad : pos(c) <= pos(d)>>

(***************************************************************************)
(* The notebooks' custom validators.  An outcome is [st, v]: "ok" with the *)
(* returned value, "fail" (the validator raised ValueError with the        *)
(* message msg, which the engine turns into an error of the field), or     *)
(* "raise" (the validator                                                  *)
(* body raised another exception, e.g. AttributeError for a method the     *)
(* value does not have; the engine does not catch it).                     *)
(***************************************************************************)
Ok(v) == [st |-> "ok", v |-> v, msg |-> ""]
Fail(v, msg) == [st |-> "fail", v |-> v, msg |-> msg]
Raise(v) == [st |-> "raise", v |-> v, msg |-> ""]

\* What the system clock reads when a call is made: the moment the notebooks
\* were run, and the moment of the deadline they book.  Two calls made within
\* the clock's resolution read the same value.  (The machine's time zone is
\* UTC.)
ClockReadings == << [y |-> 2025, m |-> 7, d |-> 10, hh |-> 16, mi |-> 56, ss |-> 12],
                    [y |-> 2025, m |-> 8, d |-> 1, hh |-> 12, mi |-> 0, ss |-> 0] >>
Reading == ClockReadings[clock]
\* datetime.now(), datetime.utcnow()
Now == DatetimeV(Seconds(Reading.y, Reading.m, Reading.d, Reading.hh, Reading.mi, Reading.ss))
\* date.today()
Today == 10000 * Reading.y + 100 * Reading.m + Reading.d

username_must_be_lowercase_alphanumeric(v) ==
    IF v.k # "str" THEN Raise(v)
    ELSE IF ~IsAlnum(v.s) THEN Fail(v, "Username must be alphanumeric")
    ELSE IF v.s # Lower(v.s) THEN Fail(v, "Username must be lowercase")
    ELSE Ok(v)

validate_email(v) ==
    IF v.k # "str" THEN Raise(v)
    ELSE LET t == Lower(Strip(v.s))
         IN  IF ~InSeq("@", t) THEN Fail(v, "Invalid email address") ELSE Ok(StrV(t))

strip_whitespace(v) == IF v.k # "str" THEN Raise(v) ELSE Ok(StrV(Strip(v.s)))

name_must_be_title_case(v) ==
    IF v.k # "str" THEN Raise(v)
    ELSE IF ~IsTitle(v.s) THEN Fail(v, "Product name must be title case") ELSE Ok(v)

validate_price(v) ==
    IF v.k \notin {"int", "float", "bool"} THEN Raise(v)
    ELSE IF v.n <= 0 THEN Fail(v, "Price must be a positive number.") ELSE Ok(v)

\* @field_validator("price", "discount_price"): one function for both fields
check_positive(v) ==
    IF v.k \notin {"int", "float", "bool"} THEN Raise(v)
    ELSE IF v.n <= 0 THEN Fail(v, "Must be positive") ELSE Ok(v)

must_be_in_past(v) ==
    IF v.k # "date" THEN Raise(v)
    ELSE IF v.n >= Today THEN Fail(v, "Date of birth must be in the past") ELSE Ok(v)

must_be_future(v) ==
    IF v.k # "datetime" THEN Raise(v)
    ELSE IF v.n <= Now.n THEN Fail(v, "Deadline must be in the future") ELSE Ok(v)

RunFieldValidator(id, v) ==
    CASE id = "username_must_be_lowercase_alphanumeric" -> username_must_be_lowercase_alphanumeric(v)
      [] id = "validate_email" -> validate_email(v)
      [] id = "strip_whitespace" -> strip_whitespace(v)
      [] id = "name_must_be_title_case" -> name_must_be_title_case(v)
      [] id = "validate_price" -> validate_price(v)
      [] id = "check_positive" -> check_positive(v)
      [] id = "must_be_in_past" -> must_be_in_past(v)
      [] id = "must_be_future" -> must_be_future(v)

\* The validated record is a sequence of [name, v], one entry per field.
HasField(rec, name) == \E i \in 1..Len(rec) : rec[i].name = name
FieldValue(rec, name) == rec[CHOOSE i \in 1..Len(rec) : rec[i].name = name].v

\* Python truth value of a record attribute
Truthy(v) ==
    CASE v.k = "none" -> FALSE
      [] v.k = "str" -> v.s # <<>>
      [] v.k = "list" -> FALSE
      [] OTHER -> v.n # 0

\* Whole-record validators (mode="after"): [st, rec], "raise" when the
\* record has no such attribute.
\* check_dates asking for an end_date after the start_date.
check_dates_strictly(rec) ==
    IF ~(HasField(rec, "start_date") /\ HasField(rec, "end_date")) THEN [st |-> "raise", rec |-> rec]
    ELSE IF FieldValue(rec, "end_date").n <= FieldValue(rec, "start_date").n
         THEN [st |-> "fail", rec |-> rec]
         ELSE [st |-> "ok", rec |-> rec]

check_dates(rec) ==
    IF ~(HasField(rec, "start_date") /\ HasField(rec, "end_date")) THEN [st |-> "raise", rec |-> rec]
    ELSE IF FieldValue(rec, "end_date").n < FieldValue(rec, "start_date").n
         THEN [st |-> "fail", rec |-> rec]
         ELSE [st |-> "ok", rec |-> rec]

check_admin_code(rec) ==
    IF ~(HasField(rec, "is_admin") /\ HasField(rec, "admin_code")) THEN [st |-> "raise", rec |-> rec]
    ELSE IF Truthy(FieldValue(rec, "is_admin")) /\ ~Truthy(FieldValue(rec, "admin_code"))
         THEN [st |-> "fail", rec |-> rec]
         ELSE [st |-> "ok", rec |-> rec]

RunRecordValidator(id, rec) ==
    CASE id = "check_dates" -> check_dates(rec)
      [] id = "check_admin_code" -> check_admin_code(rec)

(***************************************************************************)
(* Schemas: the model classes of the notebooks.  A field is                *)
(* [name, type, opt, cons, def, pre, post]; a schema is its fields in      *)
(* declaration order and its whole-record validators.                      *)
(***************************************************************************)
Required == [kind |-> "required", v |-> Absent]
Default(v) == [kind |-> "literal", v |-> v]
\* Field(default_factory=...)
Factory(id) == [kind |-> "factory", v |-> Absent, id |-> id]
\* The factory is called: one more value from it.
InvokeFactory(id) == CASE id = "utcnow" -> Now
\* What a field left out of the input gets.
DefaultValue(f) == IF f.def.kind = "factory" THEN InvokeFactory(f.def.id) ELSE f.def.v
C(c, b) == [c |-> c, b |-> b]

F(name, type, cons, def) ==
    [name |-> name, type |-> type, opt |-> FALSE, cons |-> cons, def |-> def,
     pre |-> <<>>, post |-> <<>>]
\* name: Optional[type]
Opt(f) == [f EXCEPT !.opt = TRUE]
\* @validator(name, pre=True) / @validator(name), @field_validator(name)
Pre(f, id) == [f EXCEPT !.pre = Append(@, id)]
Post(f, id) == [f EXCEPT !.post = Append(@, id)]

Model(fields, rvs) == [fields |-> fields, rvs |-> rvs]

NameField == F("name", "str", {}, Required)
UsernameField == F("username", "str", {}, Required)
EmailField == F("email", "str", {}, Required)

\* 03 numeric bounds: age: int = Field(ge=18, le=60)
Person == Model(<<NameField, F("age", "int", {C("ge", 18), C("le", 60)}, Required)>>, <<>>)
\* 05 field constraints: price: float = Field(gt=0, le=10000)
Product == Model(<<NameField, F("price", "float", {C("gt", 0), C("le", 1000000)}, Required)>>, <<>>)
\* 03 numeric bounds: price: float = Field(gt=0)
ProductPositive == Model(<<NameField, F("price", "float", {C("gt", 0)}, Required)>>, <<>>)
\* 05 field constraints: username min_length=3, max_length=15; email pattern
User == Model(<<F("username", "str", {C("min_length", 3), C("max_length", 15)}, Required),
                F("email", "str", {C("pattern", EmailPattern)}, Required)>>, <<>>)
\* 05 field constraints: stock: int = Field(default=1, ge=0)
Item == Model(<<NameField, F("stock", "int", {C("ge", 0)}, Default(IntV(1)))>>, <<>>)
\* 02 type annotations: id, name, price, in_stock: bool = True
ProductTyped == Model(<<F("id", "int", {}, Required), NameField,
                        F("price", "float", {}, Required),
                        F("in_stock", "bool", {}, Default(BoolV(TRUE)))>>, <<>>)
\* required vs optional: username, email
UserRequired == Model(<<UsernameField, EmailField>>, <<>>)
\* phone: str = "N/A"
UserPhoneDefault == Model(<<UsernameField, EmailField,
                            F("phone", "str", {}, Default(StrV(<<"N", "/", "A">>)))>>, <<>>)
\* phone: Optional[str]
UserPhoneRequired == Model(<<UsernameField, EmailField,
                             Opt(F("phone", "str", {}, Required))>>, <<>>)
\* phone: Optional[str] = None
UserPhoneOptional == Model(<<UsernameField, EmailField,
                             Opt(F("phone", "str", {}, Default(NoneV)))>>, <<>>)
\* model validators: Event with check_dates
Event == Model(<<NameField, F("start_date", "date", {}, Required),
                 F("end_date", "date", {}, Required)>>, <<"check_dates">>)
\* model validators: User with check_admin_code
\* Event with its dates alone
EventDated == Model(<<F("start_date", "date", {}, Required),
                      F("end_date", "date", {}, Required)>>, <<"check_dates">>)
UserAdmin == Model(<<UsernameField, F("is_admin", "bool", {}, Default(BoolV(FALSE))),
                     Opt(F("admin_code", "str", {}, Default(NoneV)))>>, <<"check_admin_code">>)
\* regex validators: Contact with phone pattern
Contact == Model(<<NameField, F("phone", "str", {C("pattern", PhonePattern)}, Required)>>, <<>>)
\* @validator: User.username_must_be_lowercase_alphanumeric
UserValidated == Model(<<Post(UsernameField, "username_must_be_lowercase_alphanumeric")>>, <<>>)
\* @validator: Account.validate_email
Account == Model(<<Post(EmailField, "validate_email")>>, <<>>)
\* @validator: Product.strip_whitespace (pre=True), name_must_be_title_case
ProductNamed == Model(<<Post(Pre(NameField, "strip_whitespace"), "name_must_be_title_case")>>, <<>>)
\* @field_validator: Product.validate_price
ProductPriced == Model(<<NameField, Post(F("price", "float", {}, Required), "validate_price")>>, <<>>)
\* @field_validator: check_positive for price and discount_price
ProductDiscount == Model(<<Post(F("price", "float", {}, Required), "check_positive"),
                           Post(F("discount_price", "float", {}, Required), "check_positive")>>, <<>>)
\* datetime validations: Person.must_be_in_past
PersonBorn == Model(<<NameField, Post(F("date_of_birth", "date", {}, Required), "must_be_in_past")>>, <<>>)
\* default values: Log with timestamp: datetime = Field(default_factory=datetime.utcnow)
Log == Model(<<F("message", "str", {}, Required),
               F("timestamp", "datetime", {}, Factory("utcnow"))>>, <<>>)
\* datetime validations: Booking.must_be_future
Booking == Model(<<F("event_name", "str", {}, Required),
                   Post(F("deadline", "datetime", {}, Required), "must_be_future")>>, <<>>)

\* Classes that put together declarations the notebooks show one at a time.
\* A length bound and a pattern on one string field:
Handle == Model(<<F("username", "str", {C("min_length", 3), C("pattern", EmailPattern)}, Required)>>, <<>>)
\* A length bound on a field whose validator strips the value:
AccountBounded == Model(<<Post(F("email", "str", {C("min_length", 3)}, Required), "validate_email")>>, <<>>)
\* A default outside the field's own bound:
ItemNegative == Model(<<NameField, F("stock", "int", {C("ge", 0)}, Default(IntV(-1)))>>, <<>>)
\* A length bound on a field whose pre=True validator strips the value:
ProductNamedBounded == Model(<<Pre(F("name", "str", {C("min_length", 3)}, Required), "strip_whitespace")>>, <<>>)
\* A bounded field in a class with a whole-record validator:
UserAdminBounded == Model(<<F("username", "str", {C("min_length", 3)}, Required),
                            F("is_admin", "bool", {}, Default(BoolV(FALSE))),
                            Opt(F("admin_code", "str", {}, Default(NoneV)))>>, <<"check_admin_code">>)
\* 03 numeric bounds: percent: float = Field(ge=0, le=100)
Score == Model(<<NameField, F("percent", "float", {C("ge", 0), C("le", 10000)}, Required)>>, <<>>)
\* An exclusive upper bound (lt) on a percentage:
ScoreBelow == Model(<<F("percent", "float", {C("ge", 0), C("lt", 10000)}, Required)>>, <<>>)
\* Product of the @field_validator notebook with check_positive added to it:
\* price has validate_price and then check_positive.
ProductChecked == Model(<<Post(Post(F("price", "float", {}, Required), "validate_price"), "check_positive"),
                          Post(F("discount_price", "float", {}, Required), "check_positive")>>, <<>>)
\* A username trimmed and then checked, by two validators run after coercion:
UserTrimmed == Model(<<Post(Post(UsernameField, "strip_whitespace"),
                            "username_must_be_lowercase_alphanumeric")>>, <<>>)
\* The same two validators, both declared with pre=True:
UserTrimmedPre == Model(<<Pre(Pre(UsernameField, "strip_whitespace"),
                              "username_must_be_lowercase_alphanumeric")>>, <<>>)
\* The digit rule of check_password_strength declared as the field's pattern:
SignUpDigit == Model(<<F("password", "str", {C("pattern", DigitPattern)}, Required)>>, <<>>)
\* The two whole-record validators on one class:
EventAdmin == Model(<<F("start_date", "date", {}, Required), F("end_date", "date", {}, Required),
                      F("is_admin", "bool", {}, Default(BoolV(FALSE))),
                      Opt(F("admin_code", "str", {}, Default(NoneV)))>>,
                    <<"check_dates", "check_admin_code">>)

Schemas == {Person, Product, ProductPositive, Score, User, Item, ProductTyped, UserRequired, UserPhoneDefault,
            UserPhoneRequired, UserPhoneOptional, Event, UserAdmin, UserValidated,
            Account, ProductNamed, ProductPriced, PersonBorn, Log, Booking,
            ProductDiscount, Contact,
            Handle, AccountBounded, ItemNegative, UserAdminBounded, ScoreBelow,
            EventAdmin, ProductChecked, UserTrimmed, UserTrimmedPre,
            SignUpDigit, ProductNamedBounded, EventDated}

\* The field names of a class.
FieldNames(m) == {m.fields[i].name : i \in 1..Len(m.fields)}
\* A class statement: the class body, and the field names its validator
\* decorators name.
Declare(m) ==
    [model |-> m,
     named |-> {m.fields[i].name : i \in {j \in 1..Len(m.fields) : m.fields[j].pre \o m.fields[j].post # <<>>}}]
\* The class statements of the notebooks, and Product of the @field_validator
\* notebook with the check_positive cell pasted into it as it is: it names
\* discount_price, which that Product does not have.
Declarations ==
    {Declare(m) : m \in Schemas}
        \cup {[Declare(ProductPriced) EXCEPT !.named = @ \cup {"price", "discount_price"}]}

(***************************************************************************)
(* Raw inputs: the values a caller passes for a field, after the           *)
(* notebooks' examples (shortened strings).                                *)
(***************************************************************************)
Samples(name) ==
    CASE name = "name" -> {StrV(<<" ", "T", "v", " ">>), StrV(<<"t", "v">>), IntV(1234)}
      [] name = "age" -> {IntV(12), IntV(18), IntV(60), IntV(61), StrV(<<"2", "5">>), StrV(<<"x">>),
                          StrV(<<" ", "2", "5", " ">>), StrV(<<"2", "5", ".", "5">>), BoolV(TRUE),
                          FloatV(2500), FloatV(2550), ListV, NoneV}
      [] name = "price" -> {IntV(0), IntV(-50), FloatV(89999), FloatV(1000001),
                            StrV(<<"5", "9", "9", ".", "9", "9">>), StrV(<<"n", "o", "t">>),
                            StrV(<<"8", "9", "9", ".", "9", "9">>)}
      [] name = "discount_price" -> {FloatV(1000), IntV(-5), StrV(<<"x">>)}
      [] name = "username" -> {StrV(<<"g", "i">>), StrV(<<"g", "i", "g", "i">>),
                               StrV(<<"G", "i", "$">>), IntV(1), StrV(<<" ", "g", "i", "g", " ">>)}
      [] name = "email" -> {StrV(<<"a", "@", "b", ".", "c">>), StrV(<<"a", "b">>),
                            StrV(<<" ", "A", "@", "b", ".", "c", " ">>), StrV(<<" ", "@", " ">>)}
      [] name = "stock" -> {IntV(5), IntV(-1), StrV(<<"x">>)}
      [] name = "id" -> {IntV(101), StrV(<<"1", "0", "1">>), StrV(<<"x">>)}
      [] name = "in_stock" -> {BoolV(TRUE), StrV(<<"f", "a", "l", "s", "e">>), StrV(<<"m", "a", "y", "b", "e">>)}
      [] name = "is_admin" -> {BoolV(TRUE), BoolV(FALSE), StrV(<<"m", "a", "y", "b", "e">>),
                               StrV(<<"Y", "E", "S">>), StrV(<<"0">>), StrV(<<"o", "n">>),
                               IntV(0), IntV(1), IntV(2), NoneV}
      [] name = "admin_code" -> {StrV(<<"A", "D", "M">>), StrV(<<>>), NoneV}
      [] name = "phone" -> {StrV(<<"9", "8">>), NoneV, IntV(98),
                            StrV(<<"+", "9", "1", "-", "9", "8", "7", "6", "5", "4", "3", "2", "1", "0">>),
                            StrV(<<"+", "9", "1", "-", "9", "8", "7", "6", "5", "4", "3", "2", "1", "0", "x">>)}
      [] name = "password" -> {StrV(<<"P", "a", "s", "s", "1", "!">>), StrV(<<"7">>),
                               StrV(<<"P", "a", "s", "s">>), StrV(<<>>)}
      [] name = "start_date" -> {StrV(<<"2", "0", "2", "5", "-", "0", "7", "-", "0", "1">>),
                                 StrV(<<"2", "0", "2", "5", "-", "0", "8", "-", "0", "1">>),
                                 StrV(<<"b", "a", "d">>)}
      [] name = "end_date" -> {StrV(<<"2", "0", "2", "5", "-", "0", "7", "-", "1", "0">>),
                               StrV(<<"2", "0", "2", "5", "-", "0", "7", "-", "0", "1">>),
                               DateV(20250710)}
      [] name = "percent" -> {FloatV(8850), FloatV(10430), FloatV(10000), FloatV(9999), IntV(0),
                              FloatV(-1), StrV(<<" ", "8", "8", ".", "5">>), StrV(<<"x">>),
                              BoolV(TRUE), ListV, NoneV}
      [] name = "message" -> {StrV(<<"i", "n">>), IntV(1234), BoolV(TRUE), ListV, NoneV,
                              FloatV(59999)}
      [] name = "timestamp" -> {StrV(<<"2", "0", "2", "5", "-", "0", "7", "-", "1", "5", "T",
                                       "1", "8", ":", "0", "0", ":", "0", "0">>),
                                StrV(<<"1", "8", ":", "0", "0">>)}
      [] name = "event_name" -> {StrV(<<"H">>), IntV(1)}
      [] name = "deadline" -> {StrV(<<"2", "0", "2", "5", "-", "0", "8", "-", "0", "1", "T",
                                      "1", "2", ":", "0", "0", ":", "0", "0">>),
                               StrV(<<"2", "0", "2", "5", "-", "0", "8", "-", "0", "1", "T",
                                      "1", "2", ":", "0", "0", ":", "0", "1">>),
                               StrV(<<"2", "0", "2", "3", "-", "0", "5", "-", "1", "0", "T",
                                      "1", "2", ":", "0", "0", ":", "0", "0">>)}
      [] name = "date_of_birth" -> {StrV(<<"2", "0", "0", "4", "-", "0", "1", "-", "0", "1">>),
                                    StrV(<<"2", "0", "3", "0", "-", "0", "1", "-", "0", "1">>),
                                    StrV(<<"2", "0", "2", "5", "-", "0", "2", "-", "3", "0">>)}

\* Every input for the fields fs[1..i]: each field absent or one of its samples.
RECURSIVE InputsUpTo(_, _)
InputsUpTo(fs, i) ==
    IF i = 0 THEN {<<>>}
    ELSE {Append(t, r) : t \in InputsUpTo(fs, i - 1), r \in Samples(fs[i].name) \cup {Absent}}

Inputs(sch) == InputsUpTo(sch.fields, Len(sch.fields))

(***************************************************************************)
(* One validate call: the construction of a model instance from an input.  *)
(***************************************************************************)
\* An entry of the ValidationError: the field, the kind of error, the
\* input_value it quotes, and the message of a ValueError a validator raised.
Err(field, kind, value) == [field |-> field, kind |-> kind, value |-> value, msg |-> ""]
Event_(ev, f, id, arg) == [ev |-> ev, f |-> f, id |-> id, arg |-> arg]

NoResult == [outcome |-> "NONE", record |-> <<>>, errors |-> <<>>]
\* The caller holds no instance of an earlier call.
NoInstance == [record |-> <<>>, input |-> <<>>, at |-> 0, touched |-> FALSE]
\* instance.model_dump(): the instance's values as a mapping
Dump(rec) == [i \in 1..Len(rec) |-> rec[i].v]
\* Rejected handing out what was assembled so far.
RejectedWithRecord(errs) == [outcome |-> "REJECTED", record |-> record, errors |-> errs]
Rejected(errs) == [outcome |-> "REJECTED", record |-> <<>>, errors |-> errs]
Accepted(rec) == [outcome |-> "ACCEPTED", record |-> rec, errors |-> <<>>]

\* What belongs to the running call alone: its input, its position, what
\* it has collected, and what the clock read when it was made.
Context ==
    [input |-> input, pc |-> pc, fi |-> fi, stage |-> stage, vi |-> vi, cur |-> cur,
     errors |-> errors, record |-> record, result |-> result, log |-> log, clock |-> clock]

Terminal == {"ACCEPTED", "REJECTED", "RAISED"}
NFields == Len(schema.fields)
Field == schema.fields[fi]
Raw == input[fi]

\* Resolved with Optional[T] read as "may be left out": None when absent.
ResolvedOptionalAsNone(f, raw) ==
    IF raw # Absent THEN [kind |-> "input", v |-> raw]
    ELSE IF f.def.kind = "required"
         THEN (IF f.opt THEN [kind |-> "default", v |-> NoneV] ELSE [kind |-> "missing", v |-> Absent])
         ELSE [kind |-> "default", v |-> DefaultValue(f)]

\* Resolved with one default object for all instances: a field left out
\* gets what the instance in the caller's hands has for it.
ResolvedShared(f, raw) ==
    IF raw # Absent THEN [kind |-> "input", v |-> raw]
    ELSE IF f.def.kind = "required" THEN [kind |-> "missing", v |-> Absent]
    ELSE [kind |-> "default",
          v |-> IF HasField(held.record, f.name) THEN FieldValue(held.record, f.name)
                ELSE DefaultValue(f)]

\* What the engine starts a field from: a field with no key in the input is
\* "missing" when it declares no default (Optional[T] or not), else it takes
\* its default; a field with a key takes the caller's value.
Resolved(f, raw) ==
    IF raw # Absent THEN [kind |-> "input", v |-> raw]
    ELSE IF f.def.kind = "required" THEN [kind |-> "missing", v |-> Absent]
    ELSE [kind |-> "default", v |-> DefaultValue(f)]

\* GateOpen without the gate: whole-record validators run on any record.
GateOpenAlways(errs) == TRUE

\* Whole-record validators run only on a record with no field error.
GateOpen(errs) == errs = <<>>

\* ConstraintErrors with the evaluation left out.
ConstraintErrorsNone(f, v, raw) == <<>>

\* ConstraintErrors quoting the coerced value.
ConstraintErrorsCoerced(f, v, raw) ==
    LET cs == CheckConstraints(f, v)
    IN  [i \in 1..Len(cs) |-> Err(f.name, ErrorKind(cs[i].c), v)]

\* The error entries of one field's broken constraints.  The input_value of
\* a coercion or constraint error is what the field's coercion was given: the
\* caller's value, or what the pre=True validators made of it.  (The
\* pre=True validators of a class are declared before its other validators,
\* as in the notebook; an error of a validator run after coercion then
\* quotes the caller's value.)
ConstraintErrors(f, v, raw) ==
    LET cs == CheckConstraints(f, v)
    IN  [i \in 1..Len(cs) |-> Err(f.name, ErrorKind(cs[i].c), raw)]

\* A chain of custom validators from the i-th on: each gets what the one
\* before it returned; the first that does not return ends the chain.
RECURSIVE RunValidators(_, _, _)
RunValidators(ch, i, v) ==
    IF i > Len(ch) THEN Ok(v)
    ELSE LET r == RunFieldValidator(ch[i], v)
         IN  IF r.st = "ok" THEN RunValidators(ch, i + 1, r.v) ELSE r

\* The order in which the pre=True validators of a field run: each one is
\* wrapped around what was declared before it, so the last declared gets the
\* raw value first.
PreOrder(f) == [i \in 1..Len(f.pre) |-> f.pre[Len(f.pre) + 1 - i]]

\* The value a field's coercion receives: the raw value through the
\* pre-validators.
PreOut(f, raw) == RunValidators(PreOrder(f), 1, raw)

\* One field on its own: [st, v, errs], st "ok" with the field's value,
\* "error" with its error entries, or "raise".
FieldOutcome(f, raw) ==
    LET r == Resolved(f, raw)
        out(st, v, es) == [st |-> st, v |-> v, errs |-> es]
    IN  IF r.kind = "missing" THEN out("error", Absent, <<Err(f.name, "MissingError", WholeInput)>>)
        ELSE IF r.kind = "default" THEN out("ok", r.v, <<>>)
        ELSE LET p == PreOut(f, raw)
             IN  IF p.st = "raise" THEN out("raise", Absent, <<>>)
                 ELSE IF p.st = "fail" THEN out("error", Absent, <<[Err(f.name, "CustomValidationError", p.v) EXCEPT !.msg = p.msg]>>)
                 ELSE LET c == Coerce(f, p.v)
                      IN  IF ~c.ok THEN out("error", Absent, <<Err(f.name, "CoercionError", p.v)>>)
                          ELSE LET es == ConstraintErrors(f, c.v, p.v)
                                   q == RunValidators(f.post, 1, c.v)
                               IN  IF es # <<>> THEN out("error", Absent, es)
                                   ELSE IF q.st = "raise" THEN out("raise", Absent, <<>>)
                                   ELSE IF q.st = "fail" THEN out("error", Absent, <<[Err(f.name, "CustomValidationError", raw) EXCEPT !.msg = q.msg]>>)
                                   ELSE out("ok", q.v, <<>>)

Init ==
    /\ decl \in Declarations
    /\ schema = Model(<<>>, <<>>)
    /\ input = <<>>
    /\ pc = "UNDEFINED"
    /\ fi = 0
    /\ stage = "none"
    /\ vi = 0
    /\ cur = Absent
    /\ errors = <<>>
    /\ record = <<>>
    /\ result = NoResult
    /\ log = <<>>
    /\ calls = 0
    /\ clock = 1
    /\ held = NoInstance
    /\ other = [pc |-> "NONE"]

\* define_schema refusing a literal default that breaks the field's own
\* constraints.
define_schema_checking_defaults ==
    /\ pc = "UNDEFINED"
    /\ LET fs == decl.model.fields
           bad == \E i \in 1..Len(fs) :
                      fs[i].def.kind = "literal" /\ Violated(fs[i], fs[i].def.v) # {}
       IN  IF decl.named \subseteq FieldNames(decl.model) /\ ~bad
           THEN schema' = decl.model /\ pc' = "IDLE"
           ELSE schema' = schema /\ pc' = "DEFINITION_ERROR"
    /\ UNCHANGED <<decl, other, input, fi, stage, vi, cur, errors, record, result, log, calls, clock, held>>

\* The class statement runs.  The class is refused when a validator
\* decorator names a field the class does not have; defaults are not
\* looked at.
define_schema ==
    /\ pc = "UNDEFINED"
    /\ IF decl.named \subseteq FieldNames(decl.model)
       THEN schema' = decl.model /\ pc' = "IDLE"
       ELSE schema' = schema /\ pc' = "DEFINITION_ERROR"
    /\ UNCHANGED <<decl, other, input, fi, stage, vi, cur, errors, record, result, log, calls, clock, held>>

\* A call is entered with the input inp, the caller holding the instance h;
\* the clock reads what it read at the call before, or has moved on.
Enter(inp, h) ==
    /\ calls < MaxCalls
    /\ input' = inp
    /\ held' = h
    /\ \E t \in clock..Len(ClockReadings) : clock' = t
    /\ pc' = "INIT"
    /\ calls' = calls + 1
    /\ fi' = 0 /\ stage' = "none" /\ vi' = 0 /\ cur' = Absent
    /\ errors' = <<>> /\ record' = <<>> /\ result' = NoResult /\ log' = <<>>
    /\ UNCHANGED <<decl, other, schema>>

\* The instance the last call returned, in the caller's hands.
Instance == [record |-> result.record, input |-> input, at |-> clock, touched |-> FALSE]

\* The caller is done with the call's outcome and lets go of the instances
\* it holds.
Discard ==
    /\ pc \in Terminal
    /\ pc' = "IDLE"
    /\ input' = <<>> /\ held' = NoInstance
    /\ fi' = 0 /\ stage' = "none" /\ vi' = 0 /\ cur' = Absent
    /\ errors' = <<>> /\ record' = <<>> /\ result' = NoResult /\ log' = <<>>
    /\ UNCHANGED <<decl, other, schema, calls, clock>>

\* The caller builds an instance from keyword arguments.
StartCall ==
    /\ pc = "IDLE"
    /\ \E inp \in Inputs(schema) : Enter(inp, NoInstance)

\* The caller keeps the instance it got and builds another one from what
\* that instance holds.
Revalidate ==
    /\ pc = "ACCEPTED"
    /\ Enter(Dump(result.record), Instance)

\* The caller keeps the instance it got and builds another one from the
\* same keyword arguments (log1 = Log(...); log2 = Log(...)).
Repeat ==
    /\ pc = "ACCEPTED"
    /\ Enter(input, Instance)

\* The caller assigns to an attribute of the instance it holds.
Assign ==
    /\ pc \in Terminal \cup {"INIT"}
    /\ held # NoInstance /\ ~held.touched
    /\ \E i \in 1..Len(held.record) :
        /\ schema.fields[i].def.kind # "required"
        /\ held' = [held EXCEPT !.record[i].v = ListV, !.touched = TRUE]
    /\ UNCHANGED <<decl, other, schema, input, pc, fi, stage, vi, cur, errors, record, result, log, calls, clock>>

Begin ==
    /\ pc = "INIT"
    /\ pc' = "PER_FIELD"
    /\ fi' = 1 /\ stage' = "resolve"
    /\ UNCHANGED <<decl, other, schema, input, vi, cur, errors, record, result, log, calls, clock, held>>

\* FieldFails ending the pass at the first failing field.
FieldFailsAndStops(es) ==
    /\ errors' = errors \o es
    /\ fi' = NFields + 1 /\ stage' = "resolve" /\ vi' = 0 /\ cur' = Absent
    /\ UNCHANGED <<decl, other, schema, input, pc, record, result, calls, clock, held>>

\* FieldFails putting the newest errors first.
FieldFailsPrepending(es) ==
    /\ errors' = es \o errors
    /\ fi' = fi + 1 /\ stage' = "resolve" /\ vi' = 0 /\ cur' = Absent
    /\ UNCHANGED <<decl, other, schema, input, pc, record, result, calls, clock, held>>

\* The field is done with the error entries es: on to the next field.
FieldFails(es) ==
    /\ errors' = errors \o es
    /\ fi' = fi + 1 /\ stage' = "resolve" /\ vi' = 0 /\ cur' = Absent
    /\ UNCHANGED <<decl, other, schema, input, pc, record, result, calls, clock, held>>

\* Resolve sending a default through the stages a caller's value goes
\* through.
ResolveCheckingDefault ==
    /\ pc = "PER_FIELD" /\ fi <= NFields /\ stage = "resolve"
    /\ LET r == Resolved(Field, Raw)
           made == IF r.kind = "default" /\ Field.def.kind = "factory"
                   THEN <<Event_("factory", Field.name, Field.def.id, r.v)>> ELSE <<>>
       IN  log' = Append(log, Event_("visit", Field.name, "", Raw)) \o made
    /\ LET r == Resolved(Field, Raw)
       IN  IF r.kind = "missing"
           THEN FieldFails(<<Err(Field.name, "MissingError", WholeInput)>>)
           ELSE /\ cur' = r.v
                /\ stage' = IF Field.pre # <<>> THEN "pre" ELSE "coerce"
                /\ vi' = 1
                /\ UNCHANGED <<decl, other, schema, input, pc, fi, errors, record, result, calls, clock, held>>

\* Look the field up in the input.  A default is taken as it is: it goes
\* through no validator, coercion or constraint.
Resolve ==
    /\ pc = "PER_FIELD" /\ fi <= NFields /\ stage = "resolve"
    /\ LET r == Resolved(Field, Raw)
           made == IF r.kind = "default" /\ Field.def.kind = "factory"
                   THEN <<Event_("factory", Field.name, Field.def.id, r.v)>> ELSE <<>>
       IN  log' = Append(log, Event_("visit", Field.name, "", Raw)) \o made
    /\ LET r == Resolved(Field, Raw)
       IN  IF r.kind = "missing"
           THEN FieldFails(<<Err(Field.name, "MissingError", WholeInput)>>)
           ELSE /\ cur' = r.v
                /\ stage' = IF r.kind = "default" THEN "commit"
                            ELSE IF Field.pre # <<>> THEN "pre" ELSE "coerce"
                /\ vi' = 1
                /\ UNCHANGED <<decl, other, schema, input, pc, fi, errors, record, result, calls, clock, held>>

\* RunChain going on to the field's next validator after a failure: every
\* validator of the chain gets its say.
RunChainCollecting(st, ch, next) ==
    /\ pc = "PER_FIELD" /\ fi <= NFields /\ stage = st
    /\ LET r == RunFieldValidator(ch[vi], cur)
       IN  /\ log' = Append(log, Event_(st, Field.name, ch[vi], cur))
           /\ IF r.st = "raise"
              THEN /\ pc' = "RAISED"
                   /\ UNCHANGED <<decl, other, schema, input, fi, stage, vi, cur, errors, record, result, calls, clock, held>>
              ELSE /\ errors' = IF r.st = "fail"
                                THEN Append(errors, [Err(Field.name, "CustomValidationError", IF st = "pre" THEN cur ELSE Raw)
                                                       EXCEPT !.msg = r.msg])
                                ELSE errors
                   /\ cur' = IF r.st = "ok" THEN r.v ELSE cur
                   /\ IF vi < Len(ch)
                      THEN vi' = vi + 1 /\ stage' = st /\ fi' = fi
                      ELSE IF \E k \in 1..Len(errors') : errors'[k].field = Field.name
                           THEN fi' = fi + 1 /\ stage' = "resolve" /\ vi' = 0
                           ELSE fi' = fi /\ vi' = 1 /\ stage' = next
                   /\ UNCHANGED <<decl, other, schema, input, pc, record, result, calls, clock, held>>

\* One custom validator of the field's chain ch, at the stage st; the stage
\* after the chain is next.
RunChain(st, ch, next) ==
    /\ pc = "PER_FIELD" /\ fi <= NFields /\ stage = st
    /\ LET r == RunFieldValidator(ch[vi], cur)
       IN  /\ log' = Append(log, Event_(st, Field.name, ch[vi], cur))
           /\ CASE r.st = "ok" ->
                    /\ cur' = r.v
                    /\ IF vi < Len(ch)
                       THEN vi' = vi + 1 /\ stage' = st
                       ELSE vi' = 1 /\ stage' = next
                    /\ UNCHANGED <<decl, other, schema, input, pc, fi, errors, record, result, calls, clock, held>>
                [] r.st = "fail" ->
                    FieldFails(<<[Err(Field.name, "CustomValidationError", IF st = "pre" THEN cur ELSE Raw)
                                    EXCEPT !.msg = r.msg]>>)
                [] r.st = "raise" ->
                    /\ pc' = "RAISED"
                    /\ UNCHANGED <<decl, other, schema, input, fi, stage, vi, cur, errors, record, result, calls, clock, held>>

RunPre == RunChain("pre", PreOrder(Field), "coerce")

\* CoerceField going on to the constraints after a failed coercion.
CoerceFieldThenConstrain ==
    /\ pc = "PER_FIELD" /\ fi <= NFields /\ stage = "coerce"
    /\ log' = Append(log, Event_("coerce", Field.name, "", cur))
    /\ LET c == Coerce(Field, cur)
       IN  /\ cur' = IF c.ok THEN c.v ELSE cur
           /\ errors' = IF c.ok THEN errors
                        ELSE Append(errors, Err(Field.name, "CoercionError", cur))
    /\ stage' = "constraints"
    /\ UNCHANGED <<decl, other, schema, input, pc, fi, vi, record, result, calls, clock, held>>

\* CoerceField handing the coerced value to the field's validators at once,
\* past the constraints.
CoerceFieldThenPost ==
    /\ pc = "PER_FIELD" /\ fi <= NFields /\ stage = "coerce"
    /\ log' = Append(log, Event_("coerce", Field.name, "", cur))
    /\ LET c == Coerce(Field, cur)
       IN  IF c.ok
           THEN /\ cur' = c.v
                /\ stage' = IF Field.post # <<>> THEN "post" ELSE "constraints"
                /\ UNCHANGED <<decl, other, schema, input, pc, fi, vi, errors, record, result, calls, clock, held>>
           ELSE FieldFails(<<Err(Field.name, "CoercionError", cur)>>)

CoerceField ==
    /\ pc = "PER_FIELD" /\ fi <= NFields /\ stage = "coerce"
    /\ log' = Append(log, Event_("coerce", Field.name, "", cur))
    /\ LET c == Coerce(Field, cur)
       IN  IF c.ok
           THEN /\ cur' = c.v
                /\ stage' = "constraints"
                /\ UNCHANGED <<decl, other, schema, input, pc, fi, vi, errors, record, result, calls, clock, held>>
           ELSE FieldFails(<<Err(Field.name, "CoercionError", cur)>>)

Constrain ==
    /\ pc = "PER_FIELD" /\ fi <= NFields /\ stage = "constraints"
    /\ log' = Append(log, Event_("constraints", Field.name, "", cur))
    /\ LET es == ConstraintErrors(Field, cur, PreOut(Field, Raw).v)
       IN  IF es = <<>>
           THEN /\ stage' = IF Field.post # <<>> THEN "post" ELSE "commit"
                /\ vi' = 1
                /\ UNCHANGED <<decl, other, schema, input, pc, fi, cur, errors, record, result, calls, clock, held>>
           ELSE FieldFails(es)

\* RunPost taking the field's validators last declared first, as RunPre does.
RunPostLastFirst ==
    RunChain("post", [i \in 1..Len(Field.post) |-> Field.post[Len(Field.post) + 1 - i]], "commit")

RunPost == RunChain("post", Field.post, "commit")

\* Commit writing the field's value back into the caller's mapping as well.
CommitInPlace ==
    /\ pc = "PER_FIELD" /\ fi <= NFields /\ stage = "commit"
    /\ record' = Append(record, [name |-> Field.name, v |-> cur])
    /\ input' = [input EXCEPT ![fi] = cur]
    /\ fi' = fi + 1 /\ stage' = "resolve" /\ vi' = 0 /\ cur' = Absent
    /\ UNCHANGED <<decl, other, schema, pc, errors, result, log, calls, clock, held>>

\* The field's value enters the record.
Commit ==
    /\ pc = "PER_FIELD" /\ fi <= NFields /\ stage = "commit"
    /\ record' = Append(record, [name |-> Field.name, v |-> cur])
    /\ fi' = fi + 1 /\ stage' = "resolve" /\ vi' = 0 /\ cur' = Absent
    /\ UNCHANGED <<decl, other, schema, input, pc, errors, result, log, calls, clock, held>>

\* Every field has been looked at.
Decide ==
    /\ pc = "PER_FIELD" /\ fi = NFields + 1
    /\ pc' = "DECISION"
    /\ UNCHANGED <<decl, other, schema, input, fi, stage, vi, cur, errors, record, result, log, calls, clock, held>>

\* ValidationError with the collected errors; no instance is returned.
Reject ==
    /\ pc = "DECISION" /\ ~GateOpen(errors)
    /\ pc' = "REJECTED"
    /\ result' = Rejected(errors)
    /\ UNCHANGED <<decl, other, schema, input, fi, stage, vi, cur, errors, record, log, calls, clock, held>>

EnterWholeRecord ==
    /\ pc = "DECISION" /\ GateOpen(errors)
    /\ pc' = "WHOLE_RECORD"
    /\ vi' = 1
    /\ UNCHANGED <<decl, other, schema, input, fi, stage, cur, errors, record, result, log, calls, clock, held>>

\* ValidateRecord going on to the next validator after a failure and
\* rejecting after the last one.
ValidateRecordCollecting ==
    /\ pc = "WHOLE_RECORD" /\ vi <= Len(schema.rvs)
    /\ LET r == RunRecordValidator(schema.rvs[vi], record)
           es == IF r.st = "fail" THEN Append(errors, Err("", "CrossFieldError", WholeInput)) ELSE errors
       IN  /\ log' = Append(log, Event_("rv", "", schema.rvs[vi], WholeInput))
           /\ IF r.st = "raise"
              THEN /\ pc' = "RAISED"
                   /\ UNCHANGED <<decl, other, schema, input, fi, stage, vi, cur, errors, record, result, calls, clock, held>>
              ELSE /\ errors' = es
                   /\ IF vi = Len(schema.rvs) /\ es # <<>>
                      THEN pc' = "REJECTED" /\ result' = Rejected(es) /\ vi' = vi
                      ELSE pc' = pc /\ result' = result /\ vi' = vi + 1
                   /\ UNCHANGED <<decl, other, schema, input, fi, stage, cur, record, calls, clock, held>>

\* One @model_validator(mode="after") on the assembled record.
ValidateRecord ==
    /\ pc = "WHOLE_RECORD" /\ vi <= Len(schema.rvs)
    /\ LET r == RunRecordValidator(schema.rvs[vi], record)
       IN  /\ log' = Append(log, Event_("rv", "", schema.rvs[vi], WholeInput))
           /\ CASE r.st = "ok" ->
                    /\ record' = r.rec
                    /\ vi' = vi + 1
                    /\ UNCHANGED <<decl, other, schema, input, pc, fi, stage, cur, errors, result, calls, clock, held>>
                [] r.st = "fail" ->
                    /\ errors' = <<Err("", "CrossFieldError", WholeInput)>>
                    /\ pc' = "REJECTED"
                    /\ result' = Rejected(errors')
                    /\ UNCHANGED <<decl, other, schema, input, fi, stage, vi, cur, record, calls, clock, held>>
                [] r.st = "raise" ->
                    /\ pc' = "RAISED"
                    /\ UNCHANGED <<decl, other, schema, input, fi, stage, vi, cur, errors, record, result, calls, clock, held>>

Accept ==
    /\ pc = "WHOLE_RECORD" /\ vi > Len(schema.rvs)
    /\ pc' = "ACCEPTED"
    /\ result' = Accepted(record)
    /\ UNCHANGED <<decl, other, schema, input, fi, stage, vi, cur, errors, record, log, calls, clock, held>>

Next ==
    \/ define_schema
    \/ StartCall
    \/ Discard
    \/ Revalidate
    \/ Repeat
    \/ Assign
    \/ Begin
    \/ Resolve
    \/ RunPre
    \/ CoerceField
    \/ Constrain
    \/ RunPost
    \/ Commit
    \/ Decide
    \/ Reject
    \/ EnterWholeRecord
    \/ ValidateRecord
    \/ Accept

Spec == Init /\ [][Next]_vars

(***************************************************************************)
(* Two callers on one class: a second construction is begun while the      *)
(* first is under way, and the two take their steps in any order.  The     *)
(* class is shared; each call has its own Context.                         *)
(***************************************************************************)
\* A second caller begins a construction while the first is under way; the
\* first call waits.  The classes two callers share here: one with a
\* default_factory, one with a pre=True validator, one with a validator after
\* coercion, one with a whole-record validator.
Spawn ==
    /\ schema \in {Log, ProductNamed, Account, EventDated}
    /\ pc \in {"INIT", "PER_FIELD", "DECISION", "WHOLE_RECORD"}
    /\ other.pc = "NONE"
    /\ calls < MaxCalls
    /\ other' = Context
    /\ \E inp \in Inputs(schema) : input' = inp
    /\ \E t \in clock..Len(ClockReadings) : clock' = t
    /\ pc' = "INIT"
    /\ calls' = calls + 1
    /\ fi' = 0 /\ stage' = "none" /\ vi' = 0 /\ cur' = Absent
    /\ errors' = <<>> /\ record' = <<>> /\ result' = NoResult /\ log' = <<>>
    /\ UNCHANGED <<decl, schema, held>>

\* Switch with one error list for both calls.
SwitchSharingErrors ==
    /\ other.pc # "NONE"
    /\ other' = Context
    /\ input' = other.input /\ pc' = other.pc /\ fi' = other.fi /\ stage' = other.stage
    /\ vi' = other.vi /\ cur' = other.cur /\ record' = other.record
    /\ result' = other.result /\ log' = other.log /\ clock' = other.clock
    /\ UNCHANGED <<decl, schema, errors, calls, held>>

\* The running call waits and the waiting call runs.
Switch ==
    /\ other.pc # "NONE"
    /\ other' = Context
    /\ input' = other.input /\ pc' = other.pc /\ fi' = other.fi /\ stage' = other.stage
    /\ vi' = other.vi /\ cur' = other.cur /\ errors' = other.errors /\ record' = other.record
    /\ result' = other.result /\ log' = other.log /\ clock' = other.clock
    /\ UNCHANGED <<decl, schema, calls, held>>

ConcNext ==
    \/ Next
    \/ Spawn
    \/ Switch

ConcSpec == Init /\ [][ConcNext]_vars

\* Every step of a call is taken: the call is synchronous.
FairSpec == Spec /\ WF_vars(Next)

(***************************************************************************)
(* Properties                                                              *)
(***************************************************************************)
Fields == schema.fields
FieldIdx == 1..NFields
ErrorsOf(es, name) == LET Is(e) == e.field = name IN SelectSeq(es, Is)
HasError(es, name, kind) == \E i \in 1..Len(es) : es[i].field = name /\ es[i].kind = kind
LogOf(ev) == LET Is(e) == e.ev = ev IN SelectSeq(log, Is)
\* The pass over the fields is over.
Decided == pc \in {"DECISION", "WHOLE_RECORD", "ACCEPTED", "REJECTED"}

\* C1: once a field-level error is recorded, no whole-record validator is
\* invoked in that call, the call is neither in WHOLE_RECORD nor ACCEPTED, and
\* the REJECTED result holds field-level errors only (no CrossFieldError).
C1_CrossFieldGating ==
    (\E i \in 1..Len(errors) : errors[i].field # "") =>
        /\ LogOf("rv") = <<>>
        /\ pc \notin {"WHOLE_RECORD", "ACCEPTED"}
        /\ \A i \in 1..Len(errors) : errors[i].kind # "CrossFieldError"
        /\ pc = "REJECTED" =>
            /\ result.errors = errors
            /\ \A i \in 1..Len(result.errors) : result.errors[i].field # ""

\* A call rejected for a broken field constraint whose whole-record validator
\* would have rejected what was assembled, too.
C1_Witness ==
    /\ pc = "REJECTED"
    /\ \E i \in 1..Len(result.errors) : result.errors[i].kind = "LengthError"
    /\ schema.rvs # <<>>
    /\ RunRecordValidator(schema.rvs[1], record).st = "fail"
    /\ LogOf("rv") = <<>>

\* C2: when the call decides, every declared field has been visited exactly
\* once, in declaration order, and every field that fails on its own has at
\* least one error of its own among the collected errors, whatever happened
\* to the fields before it.
C2_ErrorsCollected ==
    Decided =>
        /\ LogOf("visit") = [i \in FieldIdx |-> Event_("visit", Fields[i].name, "", input[i])]
        /\ pc \in {"DECISION", "REJECTED"} =>
            \A i \in FieldIdx :
                FieldOutcome(Fields[i], input[i]).st = "error" =>
                    /\ ErrorsOf(errors, Fields[i].name) # <<>>
                    /\ pc = "REJECTED" => ErrorsOf(result.errors, Fields[i].name) # <<>>

\* A rejection that reports a later field after two earlier fields failed.
C2_Witness ==
    /\ pc = "REJECTED"
    /\ NFields >= 3
    /\ \A i \in 1..3 : ErrorsOf(result.errors, Fields[i].name) # <<>>

\* The value of a field's entry satisfies the field's type and constraints.
Satisfies(f, v) == HasType(f, v) /\ Violated(f, v) = {}
RecordNames(rec) == [i \in 1..Len(rec) |-> rec[i].name]
DeclaredNames == [i \in FieldIdx |-> Fields[i].name]

C5_EitherOr ==
    /\ pc = "REJECTED" <=> result.outcome = "REJECTED"
    /\ pc = "ACCEPTED" <=> result.outcome = "ACCEPTED"
    /\ result.outcome = "REJECTED" => result.errors # <<>> /\ result.record = <<>>
    /\ result.outcome = "ACCEPTED" => result.errors = <<>> /\ Len(result.record) = NFields

\* A rejection by a whole-record validator: every field had validated.
C5_Witness ==
    /\ pc = "REJECTED"
    /\ result.errors = <<Err("", "CrossFieldError", WholeInput)>>
    /\ Len(record) = NFields
    /\ result.record = <<>>

\* The fields the input has no key for and that declare no default.
MissingIdx == {i \in FieldIdx : input[i] = Absent /\ Fields[i].def.kind = "required"}
Positions(es, e) == {p \in 1..Len(es) : es[p] = e}
MissingErr(i) == Err(Fields[i].name, "MissingError", WholeInput)

\* C6: a call whose input leaves out N >= 1 required fields ends REJECTED
\* with at least N errors: exactly one missing-field error for each of them,
\* and these in the declaration order of their fields.
C6_MissingTotality ==
    (pc \in Terminal /\ MissingIdx # {}) =>
        /\ pc = "REJECTED"
        /\ Len(result.errors) >= Cardinality(MissingIdx)
        /\ \A i \in MissingIdx : Cardinality(Positions(result.errors, MissingErr(i))) = 1
        /\ \A i, j \in MissingIdx :
            i < j => \A p \in Positions(result.errors, MissingErr(i)) :
                         \A q \in Positions(result.errors, MissingErr(j)) : p < q

\* A rejection for two missing required fields and a third, failing field.
C6_Witness ==
    /\ pc = "REJECTED"
    /\ Cardinality(MissingIdx) = 2
    /\ Len(result.errors) = 3

\* C7: when the call decides, a field left out of the input that declares no
\* default has a missing-field error and no value, Optional[T] or not; a
\* field left out that declares a default has no error and its default as
\* its value.
C7_RequiredVsDefault ==
    Decided =>
        \A i \in FieldIdx :
            input[i] = Absent =>
                IF Fields[i].def.kind = "required"
                THEN /\ pc \in {"DECISION", "REJECTED"}
                     /\ ErrorsOf(errors, Fields[i].name) = <<MissingErr(i)>>
                     /\ ~HasField(record, Fields[i].name)
                ELSE /\ ErrorsOf(errors, Fields[i].name) = <<>>
                     /\ HasField(record, Fields[i].name)
                     /\ FieldValue(record, Fields[i].name) = DefaultValue(Fields[i])

\* A rejection with a missing-field error for a left-out Optional[T] field
\* that declares no default.
C7_Witness ==
    /\ pc = "REJECTED"
    /\ \E i \in FieldIdx :
        /\ Fields[i].opt /\ Fields[i].def.kind = "required" /\ input[i] = Absent
        /\ HasError(result.errors, Fields[i].name, "MissingError")

\* C8 as claimed: an Optional[T] field whose input is None or absent has the
\* value None.
C8_Original ==
    Decided =>
        \A i \in FieldIdx :
            (Fields[i].opt /\ input[i] \in {NoneV, Absent}) =>
                /\ HasField(record, Fields[i].name)
                /\ FieldValue(record, Fields[i].name) = NoneV

\* C8 (amended): for an Optional[T] field, the input None gives the value
\* None; a field left out takes its declared default (None when that is the
\* default) and is a missing-field error when it declares none; any other
\* input is coerced by T's rule, or is a coercion error.
C8_OptionalNone ==
    Decided =>
        \A i \in FieldIdx :
            Fields[i].opt =>
                LET f == Fields[i]
                    c == CoerceTo(f.type, input[i])
                    plain == f.cons = {} /\ f.pre = <<>> /\ f.post = <<>>
                IN  CASE input[i] = NoneV ->
                            /\ ErrorsOf(errors, f.name) = <<>>
                            /\ HasField(record, f.name) /\ FieldValue(record, f.name) = NoneV
                      [] input[i] = Absent ->
                            IF f.def.kind = "required"
                            THEN ErrorsOf(errors, f.name) = <<MissingErr(i)>> /\ ~HasField(record, f.name)
                            ELSE HasField(record, f.name) /\ FieldValue(record, f.name) = f.def.v
                      [] OTHER ->
                            IF c.ok
                            THEN plain => HasField(record, f.name) /\ FieldValue(record, f.name) = c.v
                            ELSE /\ ErrorsOf(errors, f.name) = <<Err(f.name, "CoercionError", input[i])>>
                                 /\ ~HasField(record, f.name)

\* An accepted record with None for an Optional[T] field that was given None.
C8_Witness ==
    /\ pc = "ACCEPTED"
    /\ \E i \in FieldIdx :
        Fields[i].opt /\ input[i] = NoneV /\ result.record[i].v = NoneV

\* The field's value reached the constraint evaluator: CoercedOf is it.
ReachedConstraints(i) ==
    /\ input[i] # Absent
    /\ PreOut(Fields[i], input[i]).st = "ok"
    /\ Coerce(Fields[i], PreOut(Fields[i], input[i]).v).ok
\* What field i's coercion is given.
GivenOf(i) == PreOut(Fields[i], input[i]).v
CoercedOf(i) == Coerce(Fields[i], PreOut(Fields[i], input[i]).v).v
ConstraintKinds == {"RangeError", "LengthError", "PatternError"}
ConstraintErrorsOf(es, name) ==
    LET Is(e) == e.field = name /\ e.kind \in ConstraintKinds IN SelectSeq(es, Is)
\* The declared constraints of field i that its coerced value breaks.
Broken(i) == {c \in Fields[i].cons : CoercedOf(i).k # "none" /\ Violates(c.c, c.b, CoercedOf(i))}
OrderPos(c) == CHOOSE p \in 1..Len(ConstraintOrder) : ConstraintOrder[p] = c.c

\* C9 as claimed: the number of constraint errors of a field is the number of
\* declared constraints its coerced value breaks.
C9_Original ==
    pc \in {"DECISION", "REJECTED"} =>
        \A i \in FieldIdx :
            ReachedConstraints(i) =>
                Len(ConstraintErrorsOf(errors, Fields[i].name)) = Cardinality(Broken(i))

\* C9 (amended): the evaluator looks at a field's constraints once, in a
\* fixed order, and stops at the first broken one: a field whose coerced
\* value breaks at least one declared constraint gets exactly one constraint
\* error, that of the first broken constraint in the order, and a field
\* whose value breaks none gets no constraint error.
C9_FirstViolationOnly ==
    pc \in {"DECISION", "REJECTED"} =>
        \A i \in FieldIdx :
            ReachedConstraints(i) =>
                LET es == ConstraintErrorsOf(errors, Fields[i].name)
                    first == CHOOSE c \in Broken(i) : \A d \in Broken(i) : OrderPos(c) <= OrderPos(d)
                    Is(e) == e.ev = "constraints" /\ e.f = Fields[i].name
                IN  /\ Len(SelectSeq(log, Is)) = 1
                    /\ IF Broken(i) = {} THEN es = <<>>
                       ELSE es = <<Err(Fields[i].name, ErrorKind(first.c), GivenOf(i))>>

\* A rejection with one constraint error for a value that breaks two
\* constraints.
C9_Witness ==
    /\ pc = "REJECTED"
    /\ \E i \in FieldIdx :
        /\ ReachedConstraints(i)
        /\ Cardinality(Broken(i)) = 2
        /\ Len(ConstraintErrorsOf(result.errors, Fields[i].name)) = 1

\* The field's value reached coercion and coercion failed.
CoercionFails(i) ==
    /\ input[i] # Absent
    /\ PreOut(Fields[i], input[i]).st = "ok"
    /\ ~Coerce(Fields[i], PreOut(Fields[i], input[i]).v).ok
Logged(ev, name) == \E p \in 1..Len(log) : log[p].ev = ev /\ log[p].f = name

\* C10: a field whose coercion fails gets exactly one CoercionError and no
\* constraint error, and its constraints are not evaluated; every other
\* field is coerced and constraint-checked, and gets the errors and the
\* value it gets on its own.
C10_CoercionFirst ==
    pc \in {"DECISION", "REJECTED"} =>
        \A i \in FieldIdx :
            CoercionFails(i) =>
                /\ ErrorsOf(errors, Fields[i].name) = <<Err(Fields[i].name, "CoercionError", GivenOf(i))>>
                /\ ~Logged("constraints", Fields[i].name)
                /\ \A j \in FieldIdx \ {i} :
                    LET o == FieldOutcome(Fields[j], input[j])
                    IN  /\ ErrorsOf(errors, Fields[j].name) = o.errs
                        /\ o.st = "ok" => FieldValue(record, Fields[j].name) = o.v
                        /\ input[j] # Absent => Logged("coerce", Fields[j].name)
                        /\ ReachedConstraints(j) => Logged("constraints", Fields[j].name)

\* A rejection with a CoercionError for one field and a RangeError for a
\* later one.
C10_Witness ==
    /\ pc = "REJECTED"
    /\ \E i, j \in FieldIdx :
        /\ i < j
        /\ CoercionFails(i)
        /\ ErrorsOf(result.errors, Fields[j].name) = <<Err(Fields[j].name, "RangeError", input[j])>>

\* The call validates what the instance the caller holds held when the call
\* was made.
Revalidating == held # NoInstance /\ ~held.touched /\ input = Dump(held.record)
\* No validator of the field compares its value with the clock's reading.
Timeless(f) == \A k \in 1..Len(f.post) : f.post[k] # "must_be_future"

FactoryIdx == {i \in FieldIdx : Fields[i].def.kind = "factory"}
FactoryCalls(i) == LET Is(e) == e.ev = "factory" /\ e.f = Fields[i].name IN SelectSeq(log, Is)
\* The field i was left out in the call before, too, and the caller still
\* holds that call's instance as it was returned.
LeftOutBefore(i) == held # NoInstance /\ ~held.touched /\ held.input[i] = Absent

RvLog == LogOf("rv")
CrossFieldErrors(es) == LET Is(e) == e.kind = "CrossFieldError" IN SelectSeq(es, Is)
\* The whole-record validators that fail on the assembled record.
FailingRvs == {k \in 1..Len(schema.rvs) : RunRecordValidator(schema.rvs[k], record).st = "fail"}
FirstOf(S) == CHOOSE k \in S : \A j \in S : k <= j

\* C13: the whole-record validators are invoked in declaration order; when
\* the k-th is the first to fail, exactly the first k were invoked, the call
\* ends REJECTED and the result is one CrossFieldError with an empty field
\* path; when none fails all were invoked; no error list ever holds more
\* than one CrossFieldError.
C13_FirstFailureStops ==
    /\ Len(CrossFieldErrors(errors)) <= 1 /\ Len(CrossFieldErrors(result.errors)) <= 1
    /\ Len(RvLog) <= Len(schema.rvs)
    /\ \A k \in 1..Len(RvLog) : RvLog[k].id = schema.rvs[k]
    /\ (pc = "REJECTED" /\ CrossFieldErrors(result.errors) # <<>>) =>
        /\ FailingRvs # {}
        /\ Len(RvLog) = FirstOf(FailingRvs)
        /\ result.errors = <<Err("", "CrossFieldError", WholeInput)>>
    /\ (pc \in {"ACCEPTED", "REJECTED"} /\ Len(record) = NFields /\ FailingRvs # {}) =>
        /\ pc = "REJECTED"
        /\ Len(RvLog) = FirstOf(FailingRvs)
    /\ pc = "ACCEPTED" => (FailingRvs = {} /\ Len(RvLog) = Len(schema.rvs))

\* A rejection by the first of two whole-record validators on a record the
\* second would have rejected, too: the second was not invoked.
C13_Witness ==
    /\ pc = "REJECTED"
    /\ Len(schema.rvs) = 2
    /\ FailingRvs = {1, 2}
    /\ Len(RvLog) = 1
    /\ result.errors = <<Err("", "CrossFieldError", WholeInput)>>

\* The coerced number n is outside the bound c.
OutOfBound(c, n) ==
    \/ c.c = "gt" /\ n <= c.b
    \/ c.c = "ge" /\ n < c.b
    \/ c.c = "lt" /\ n >= c.b
    \/ c.c = "le" /\ n > c.b
RangeErr(i) == Err(Fields[i].name, "RangeError", input[i])
AgeIs(n) == schema = Person /\ input[2] \notin {Absent, NoneV} /\ CoerceInt(input[2]) = Coerced(IntV(n))

\* C14: when the call decides, a numeric field whose value was coerced has a
\* RangeError exactly when the coerced value v is outside one of the field's
\* bounds (gt=b: v <= b, ge=b: v < b, lt=b: v >= b, le=b: v > b), and then it
\* has exactly that one error; with ge=18, le=60 the ages 18 and 60 give no
\* error and the age 12 exactly one RangeError, and with gt=0 the price 0
\* gives a RangeError.
C14_BoundSemantics ==
    pc \in {"DECISION", "REJECTED"} =>
        /\ \A i \in FieldIdx :
            (ReachedConstraints(i) /\ Fields[i].type \in {"int", "float"} /\ Fields[i].post = <<>>) =>
                IF \E c \in Fields[i].cons : OutOfBound(c, CoercedOf(i).n)
                THEN ErrorsOf(errors, Fields[i].name) = <<RangeErr(i)>>
                ELSE ErrorsOf(errors, Fields[i].name) = <<>>
        /\ (AgeIs(18) \/ AgeIs(60)) => ErrorsOf(errors, "age") = <<>>
        /\ AgeIs(12) => (pc = "REJECTED" => ErrorsOf(result.errors, "age") = <<RangeErr(2)>>)
        /\ (schema = Product /\ input[2] = IntV(0)) => ErrorsOf(errors, "price") = <<RangeErr(2)>>

\* A rejection of exactly the bound of an exclusive bound: 100.00 under
\* lt=100.
C14_Witness ==
    /\ pc = "REJECTED"
    /\ \E i \in FieldIdx :
        /\ ReachedConstraints(i)
        /\ \E c \in Fields[i].cons : c.c = "lt" /\ CoercedOf(i).n = c.b
        /\ result.errors = <<RangeErr(i)>>

\* The classes with price: float = Field(gt=0, ...) as their second field,
\* and a call on one of them whose name is a str.
PricedGt == schema \in {Product, ProductPositive}
NameGiven == input[1].k = "str"
LaptopPrice == StrV(<<"8", "9", "9", ".", "9", "9">>)

\* C15: with price: float = Field(gt=0), the call with the int price 0 ends
\* REJECTED, the price was coerced to the float 0.0 and handed to the
\* constraints, and price has exactly one error, a RangeError carrying the
\* input 0 (no CoercionError); the call with the str price "899.99" gives
\* price no error and, the name being a str, ends ACCEPTED with price 899.99.
C15_ScenarioC ==
    (PricedGt /\ pc \in Terminal) =>
        /\ input[2] = IntV(0) =>
            /\ pc = "REJECTED"
            /\ ErrorsOf(result.errors, "price") = <<Err("price", "RangeError", IntV(0))>>
            /\ \E p \in 1..Len(log) : log[p] = Event_("constraints", "price", "", FloatV(0))
            /\ NameGiven => Len(result.errors) = 1
        /\ input[2] = LaptopPrice =>
            /\ ErrorsOf(errors, "price") = <<>>
            /\ NameGiven => (pc = "ACCEPTED" /\ FieldValue(result.record, "price") = FloatV(89999))

\* The rejection of Product(name=..., price=0) with its one RangeError.
C15_Witness ==
    /\ schema = ProductPositive /\ pc = "REJECTED"
    /\ NameGiven /\ input[2] = IntV(0)
    /\ result.errors = <<Err("price", "RangeError", IntV(0))>>

\* The fields of a numeric type that the input has a value for and that go
\* to coercion with it.
NumericIdx == {i \in FieldIdx : /\ Fields[i].type \in {"int", "float"} /\ ~Fields[i].opt
                                /\ Fields[i].pre = <<>> /\ input[i] # Absent}
CoercionErr(i) == Err(Fields[i].name, "CoercionError", input[i])
\* The value handed to the constraints of the field i.
ConstrainedValues(i) ==
    {log[p].arg : p \in {q \in 1..Len(log) : log[q].ev = "constraints" /\ log[q].f = Fields[i].name}}
ParsesAs(type, s) == IF type = "int" THEN IsIntString(s) ELSE IsFloatString(s)

\* C16 as claimed: coercion to int (float) succeeds exactly when the raw
\* value is of that type or a string that parses as it; every other raw value
\* is a CoercionError.
C16_Original ==
    pc \in {"DECISION", "REJECTED"} =>
        \A i \in NumericIdx :
            ErrorsOf(errors, Fields[i].name) # <<CoercionErr(i)>>
                <=> \/ input[i].k = Fields[i].type
                    \/ input[i].k = "str" /\ ParsesAs(Fields[i].type, input[i].s)

\* C16 (amended): coercion to int succeeds for an int, for a bool (as 1 or
\* 0), for a float without a fractional part and for a string that parses as
\* an int once trimmed; coercion to float succeeds for a float, for an int,
\* for a bool and for a string that parses as a number once trimmed; the
\* coerced value is the number the raw value stands for.  A float with a
\* fractional part for an int field, any other string, a list and None are
\* exactly one CoercionError.
C16_NumericCoercion ==
    pc \in {"DECISION", "REJECTED"} =>
        \A i \in NumericIdx :
            LET raw == input[i]
                int == Fields[i].type = "int"
                scale == IF int THEN 1 ELSE 100
                made(n) == /\ ErrorsOf(errors, Fields[i].name) # <<CoercionErr(i)>>
                           /\ ConstrainedValues(i) = {V(Fields[i].type, n, <<>>)}
                failed == /\ ErrorsOf(errors, Fields[i].name) = <<CoercionErr(i)>>
                          /\ ConstrainedValues(i) = {}
            IN  CASE raw.k = "int" -> made(scale * raw.n)
                  [] raw.k = "bool" -> made(scale * raw.n)
                  [] raw.k = "float" -> IF int THEN (IF raw.n % 100 = 0 THEN made(raw.n \div 100) ELSE failed)
                                        ELSE made(raw.n)
                  [] raw.k = "str" -> IF ParsesAs(Fields[i].type, raw.s)
                                      THEN made(IF int THEN ParseInt(raw.s) ELSE ParseFloat(raw.s))
                                      ELSE failed
                  [] OTHER -> failed

\* An accepted call that gave an int field the float 25.0: the field is 25.
C16_Witness ==
    /\ pc = "ACCEPTED"
    /\ \E i \in NumericIdx :
        /\ Fields[i].type = "int" /\ input[i] = FloatV(2500)
        /\ result.record[i].v = IntV(25)

\* The fields declared str that the input has a value for that is not a str
\* (None for an Optional[str] field is a value of the field's type).
NonStringIdx == {i \in FieldIdx : /\ Fields[i].type = "str" /\ input[i] # Absent
                                  /\ input[i].k # "str"
                                  /\ ~(Fields[i].opt /\ input[i] = NoneV)}

\* C17 as claimed: a call that gives a str field a value that is not a str
\* ends with exactly one error for the field, a CoercionError, and the field
\* gets no value.
C17_Original ==
    pc \in Terminal =>
        \A i \in NonStringIdx :
            /\ ErrorsOf(errors, Fields[i].name) = <<CoercionErr(i)>>
            /\ ~HasField(record, Fields[i].name)

\* The bool fields that the input has a value for.
BoolIdx == {i \in FieldIdx : /\ Fields[i].type = "bool" /\ ~Fields[i].opt
                             /\ Fields[i].pre = <<>> /\ input[i] # Absent}
\* The strings the claim lists, and the longer list the engine takes.
ClaimedTrue == { <<"t","r","u","e">>, <<"1">>, <<"y","e","s">> }
ClaimedFalse == { <<"f","a","l","s","e">>, <<"0">>, <<"n","o">> }
TakenTrue == ClaimedTrue \cup { <<"o","n">>, <<"t">>, <<"y">> }
TakenFalse == ClaimedFalse \cup { <<"o","f","f">>, <<"f">>, <<"n">> }
\* The bool field i came out as b / as a CoercionError.
BoolIs(i, b) == /\ ErrorsOf(errors, Fields[i].name) = <<>>
                /\ HasField(record, Fields[i].name)
                /\ FieldValue(record, Fields[i].name) = BoolV(b)
BoolFails(i) == /\ ErrorsOf(errors, Fields[i].name) = <<CoercionErr(i)>>
                /\ ~HasField(record, Fields[i].name)

\* C18 as claimed: a bool field takes a bool and the strings true, 1, yes,
\* false, 0, no in any letter case; every other raw value is a CoercionError.
C18_Original ==
    Decided =>
        \A i \in BoolIdx :
            LET raw == input[i]
            IN  IF raw.k = "bool" THEN BoolIs(i, raw.n = 1)
                ELSE IF raw.k = "str" /\ Lower(raw.s) \in ClaimedTrue THEN BoolIs(i, TRUE)
                ELSE IF raw.k = "str" /\ Lower(raw.s) \in ClaimedFalse THEN BoolIs(i, FALSE)
                ELSE BoolFails(i)

\* C18 (amended): a bool field takes a bool unchanged, the strings true, 1,
\* yes, on, t, y as true and false, 0, no, off, f, n as false in any letter
\* case, and the numbers 1 and 0 as true and false; another string (maybe),
\* another number (2), a list and None are exactly one CoercionError.
C18_BoolCoercion ==
    Decided =>
        \A i \in BoolIdx :
            LET raw == input[i]
            IN  CASE raw.k = "bool" -> BoolIs(i, raw.n = 1)
                  [] raw.k = "str" -> IF Lower(raw.s) \in TakenTrue THEN BoolIs(i, TRUE)
                                      ELSE IF Lower(raw.s) \in TakenFalse THEN BoolIs(i, FALSE)
                                      ELSE BoolFails(i)
                  [] raw.k = "int" -> IF raw.n \in {0, 1} THEN BoolIs(i, raw.n = 1) ELSE BoolFails(i)
                  [] OTHER -> BoolFails(i)

\* An accepted call that gave a bool field "YES": the field is True.
C18_Witness ==
    /\ pc = "ACCEPTED"
    /\ \E i \in BoolIdx :
        /\ input[i] = StrV(<<"Y", "E", "S">>)
        /\ result.record[i].v = BoolV(TRUE)

\* A call on Event whose name is a str and whose two dates are ISO date
\* strings.
IsoDates == /\ schema = Event /\ pc \in Terminal
            /\ input[1].k = "str"
            /\ input[2].k = "str" /\ IsDateString(input[2].s)
            /\ input[3].k = "str" /\ IsDateString(input[3].s)

FieldLog(i) == LET Is(e) == e.f = Fields[i].name IN SelectSeq(log, Is)
StageRank(ev) ==
    CASE ev \in {"visit", "factory"} -> 0
      [] ev = "pre" -> 1
      [] ev = "coerce" -> 2
      [] ev = "constraints" -> 3
      [] ev = "post" -> 4
\* What the validator of the log entry e returned.
Returned(e) == RunFieldValidator(e.id, e.arg).v

\* C20: in every call and for every field, the stages act in the order
\* pre-coercion validators, coercion, constraints, post-coercion validators;
\* the first pre-coercion validator gets the raw input and coercion gets
\* what the last one returned (the raw input when there is none); the
\* constraints get the coerced value; the first post-coercion validator gets
\* the coerced value after the constraints found it in bounds, and every
\* post-coercion validator is invoked with a value of the field's type.
C20_StageOrder ==
    \A i \in FieldIdx :
        LET L == FieldLog(i)
            f == Fields[i]
        IN  \A p \in 1..Len(L) :
                /\ p > 1 => StageRank(L[p - 1].ev) <= StageRank(L[p].ev)
                /\ L[p].ev = "visit" => p = 1
                /\ L[p].ev = "pre" =>
                    /\ p > 1 /\ p - 1 <= Len(f.pre) /\ L[p].id \in {f.pre[k] : k \in 1..Len(f.pre)}
                    /\ L[p].arg = IF p = 2 THEN input[i] ELSE Returned(L[p - 1])
                /\ L[p].ev = "coerce" =>
                    /\ p = Len(f.pre) + 2
                    /\ L[p].arg = IF f.pre = <<>> THEN input[i] ELSE Returned(L[p - 1])
                /\ L[p].ev = "constraints" =>
                    /\ p > 1 /\ L[p - 1].ev = "coerce"
                    /\ Coerce(f, L[p - 1].arg) = Coerced(L[p].arg)
                /\ L[p].ev = "post" =>
                    /\ p > 1 /\ HasType(f, L[p].arg)
                    /\ \/ /\ L[p - 1].ev = "constraints"
                          /\ L[p].arg = L[p - 1].arg /\ Violated(f, L[p].arg) = {}
                          /\ L[p].id = f.post[1]
                       \/ /\ L[p - 1].ev = "post"
                          /\ L[p].arg = Returned(L[p - 1])

\* An accepted call on the class with strip_whitespace (pre=True) and
\* name_must_be_title_case: the first got the raw " Tv ", coercion and the
\* second got the stripped "Tv".
C20_Witness ==
    /\ pc = "ACCEPTED"
    /\ \E i \in FieldIdx :
        LET L == FieldLog(i)
        IN  /\ Len(L) = 5
            /\ L[2].ev = "pre" /\ L[2].arg = input[i]
            /\ L[3].ev = "coerce" /\ L[3].arg # input[i]
            /\ L[5].ev = "post" /\ L[5].arg = L[3].arg

\* The validator invocations of field i, in the order they were made.
ValidatorLog(i) == LET Is(e) == e.ev \in {"pre", "post"} IN SelectSeq(FieldLog(i), Is)
\* The outcome of the invocation the log entry e records.
OutcomeOf(e) == RunFieldValidator(e.id, e.arg)
\* Field j went through the engine as it does on its own.
ValidatedAlone(j) ==
    LET o == FieldOutcome(Fields[j], input[j])
    IN  /\ Logged("visit", Fields[j].name)
        /\ ErrorsOf(errors, Fields[j].name) = o.errs
        /\ o.st = "ok" => FieldValue(record, Fields[j].name) = o.v

\* C21: when a custom validator of a field raises ValueError, the field gets
\* exactly one CustomValidationError, carrying that message; the failing
\* invocation is the last one made for the field (no later validator of the
\* field is invoked); every other field is validated as it is on its own;
\* and a value that fails both checks of username_must_be_lowercase_alphanumeric
\* gets the message of the first check only.
C21_CustomFailure ==
    pc \in {"DECISION", "REJECTED"} =>
        \A i \in FieldIdx :
            LET L == ValidatorLog(i)
            IN  \A p \in 1..Len(L) :
                    OutcomeOf(L[p]).st = "fail" =>
                        /\ p = Len(L)
                        /\ ErrorsOf(errors, Fields[i].name) =
                              <<[Err(Fields[i].name, "CustomValidationError",
                                     IF L[p].ev = "pre" THEN L[p].arg ELSE input[i])
                                   EXCEPT !.msg = OutcomeOf(L[p]).msg]>>
                        /\ OutcomeOf(L[p]).msg # ""
                        /\ (/\ L[p].id = "username_must_be_lowercase_alphanumeric"
                            /\ ~IsAlnum(L[p].arg.s)) => OutcomeOf(L[p]).msg = "Username must be alphanumeric"
                        /\ \A j \in FieldIdx \ {i} : ValidatedAlone(j)
                        /\ pc = "REJECTED" => result.errors = errors

\* A rejected call on the class whose price has validate_price and then
\* check_positive: validate_price failed on the price, check_positive was not
\* invoked for it, and the discount_price was still validated (check_positive
\* failed on it with its own message).
C21_Witness ==
    /\ pc = "REJECTED"
    /\ schema = ProductChecked
    /\ Len(ValidatorLog(1)) = 1 /\ ValidatorLog(1)[1].id = "validate_price"
    /\ Len(Fields[1].post) = 2
    /\ Len(ValidatorLog(2)) = 1
    /\ [i \in 1..2 |-> result.errors[i].msg] = <<"Price must be a positive number.", "Must be positive">>
    /\ Len(result.errors) = 2

\* The invocations of field i's validators of one stage.
StageLog(i, st) == LET Is(e) == e.ev = st IN SelectSeq(FieldLog(i), Is)
\* The invocations L are those of the chain ch, in its order, the first one
\* on the value first and each later one on what the one before it returned.
ChainRan(L, ch, first) ==
    /\ Len(L) <= Len(ch)
    /\ \A p \in 1..Len(L) :
        /\ L[p].id = ch[p]
        /\ L[p].arg = IF p = 1 THEN first ELSE Returned(L[p - 1])
\* Field i went through pre, the pre=True validators in their running order,
\* and then through the other validators as declared.
Chained(i, pre) ==
    LET f == Fields[i]
        given == RunValidators(pre, 1, input[i])
        coerced == Coerce(f, given.v)
    IN  /\ ChainRan(StageLog(i, "pre"), pre, input[i])
        /\ StageLog(i, "post") # <<>> => ChainRan(StageLog(i, "post"), f.post, coerced.v)
        /\ (pc = "ACCEPTED" /\ input[i] # Absent) =>
              /\ given.st = "ok" /\ coerced.ok
              /\ Len(StageLog(i, "pre")) = Len(pre) /\ Len(StageLog(i, "post")) = Len(f.post)
              /\ result.record[i].v = RunValidators(f.post, 1, coerced.v).v

\* C22 as claimed: the validators of each phase run in declaration order, each
\* on what the one before it returned, and the value stored is their
\* composition applied to the coerced value.
C22_Original == \A i \in FieldIdx : Chained(i, Fields[i].pre)

\* C22 (amended): the validators that run after coercion run in declaration
\* order; the pre=True validators run last declared first; in both phases
\* each one gets what the one run before it returned, and the value stored is
\* the composition, in that order, applied to the input.
C22_Chaining == \A i \in FieldIdx : Chained(i, PreOrder(Fields[i]))

\* An accepted call whose field has two validators after coercion: the
\* stored username is the trimmed one, which the second validator was given.
C22_Witness ==
    /\ pc = "ACCEPTED"
    /\ Len(Fields[1].post) = 2
    /\ Len(StageLog(1, "post")) = 2
    /\ StageLog(1, "post")[2].arg # input[1]
    /\ result.record[1].v = StageLog(1, "post")[2].arg
    /\ result.record[1].v = StrV(Strip(input[1].s))

\* The fields a validator function is registered for, after coercion.
NamedFor(id) == {i \in FieldIdx : \E k \in 1..Len(Fields[i].post) : Fields[i].post[k] = id}
\* The value field i has when its k-th validator after coercion is due, as
\* an outcome: "ok" with the value when every stage before it passed.
DueAt(i, k) ==
    LET f == Fields[i]
        given == PreOut(f, input[i])
        coerced == Coerce(f, given.v)
    IN  IF input[i] = Absent \/ given.st # "ok" THEN Raise(Absent)
        ELSE IF ~coerced.ok \/ Violated(f, coerced.v) # {} THEN Raise(Absent)
        ELSE RunValidators(SubSeq(f.post, 1, k - 1), 1, coerced.v)
\* The invocations of the validator id for field i.
Invocations(i, id) == LET Is(e) == e.ev = "post" /\ e.id = id IN SelectSeq(FieldLog(i), Is)

\* C23: a validator function registered for several fields is invoked once
\* for each of them that reaches it, with that field's own value, and not at
\* all for one that does not reach it; when it fails for one field the error
\* is that field's only, and the other fields get the errors they get on
\* their own.
C23_Broadcast ==
    Decided =>
        \A i \in FieldIdx : \A k \in 1..Len(Fields[i].post) :
            LET id == Fields[i].post[k]
                due == DueAt(i, k)
                inv == Invocations(i, id)
            IN  Cardinality(NamedFor(id)) >= 2 =>
                    /\ due.st = "ok" => inv = <<Event_("post", Fields[i].name, id, due.v)>>
                    /\ due.st # "ok" => inv = <<>>
                    /\ (due.st = "ok" /\ RunFieldValidator(id, due.v).st = "fail") =>
                          /\ Len(ErrorsOf(errors, Fields[i].name)) = 1
                          /\ \A j \in FieldIdx \ {i} :
                                ErrorsOf(errors, Fields[j].name) = FieldOutcome(Fields[j], input[j]).errs

\* A rejected call on the class with check_positive for price and
\* discount_price: it failed for the price, was still invoked for the
\* discount_price, with the discount_price, and the one error is the price's.
C23_Witness ==
    /\ pc = "REJECTED"
    /\ schema = ProductDiscount
    /\ Len(Invocations(1, "check_positive")) = 1
    /\ RunFieldValidator("check_positive", Invocations(1, "check_positive")[1].arg).st = "fail"
    /\ Invocations(2, "check_positive") = <<Event_("post", "discount_price", "check_positive", FloatV(1000))>>
    /\ Len(result.errors) = 1 /\ result.errors[1].field = "price"

\* The pattern constraints of field i.
Patterns(i) == {c \in Fields[i].cons : c.c = "pattern"}
\* Field i's value got as far as its pattern: it is a string that passed
\* coercion and the length bounds, which the engine checks first.
PatternDue(i) ==
    /\ ReachedConstraints(i)
    /\ CoercedOf(i).k = "str"
    /\ \A c \in Broken(i) : c.c = "pattern"
PatternErr(i) == Err(Fields[i].name, "PatternError", GivenOf(i))
\* Some part of s, or all of it for a pattern written with ^ and $, matches.
Found(p, s) ==
    \E a \in 1..Len(s) : \E b \in a..Len(s) :
        /\ FullMatch(p, SubSeq(s, a, b))
        /\ p \in {EmailPattern, PhonePattern} => (a = 1 /\ b = Len(s))

\* C24 as claimed: a string satisfies a pattern only when the whole string
\* matches it; any other string gets exactly one PatternError.
C24_Original ==
    Decided =>
        \A i \in FieldIdx : \A c \in Patterns(i) :
            PatternDue(i) =>
                IF FullMatch(c.b, CoercedOf(i).s)
                THEN ErrorsOf(errors, Fields[i].name) = <<>>
                ELSE ErrorsOf(errors, Fields[i].name) = <<PatternErr(i)>>

\* C24 (amended): the pattern constraint is a search: a string satisfies p
\* when some part of it matches p, so only a pattern anchored with ^ and $
\* asks for the whole string; a string with no match gets exactly one
\* PatternError.
C24_PatternSearch ==
    Decided =>
        \A i \in FieldIdx : \A c \in Patterns(i) :
            PatternDue(i) =>
                IF Found(c.b, CoercedOf(i).s)
                THEN ErrorsOf(errors, Fields[i].name) = <<>>
                ELSE ErrorsOf(errors, Fields[i].name) = <<PatternErr(i)>>

\* An accepted password that has a digit in it and is not a digit: the
\* unanchored pattern is satisfied by a part of the string.
C24_Witness ==
    /\ pc = "ACCEPTED"
    /\ \E i \in FieldIdx : \E c \in Patterns(i) :
        /\ ~FullMatch(c.b, result.record[i].v.s)
        /\ Found(c.b, result.record[i].v.s)
        /\ Len(result.record[i].v.s) > 1

\* The position of the field an error entry names.
IdxOf(name) == CHOOSE i \in FieldIdx : Fields[i].name = name
FieldErrorKinds == ConstraintKinds \cup {"CoercionError", "CustomValidationError"}
\* The error entry e of a whole-record validator names no field and quotes
\* the caller's whole input.
WholeRecordErr(e) == e.field = "" <=> (e.kind = "CrossFieldError" /\ e.value = V("dict", 0, input))

Defined == pc \notin {"UNDEFINED", "DEFINITION_ERROR"}
\* A literal default of the class m breaks its field's own constraints.
BadDefault(m) ==
    \E i \in 1..Len(m.fields) :
        m.fields[i].def.kind = "literal" /\ Violated(m.fields[i], m.fields[i].def.v) # {}
ValidationKinds == FieldErrorKinds \cup {"MissingError", "CrossFieldError"}

DefaultedIdx == {i \in FieldIdx : input[i] = Absent /\ Fields[i].def.kind # "required"}

RECURSIVE RecordOutcome(_, _, _)
RecordOutcome(rvs, k, rec) ==
    IF k > Len(rvs) THEN [pc |-> "ACCEPTED", result |-> Accepted(rec)]
    ELSE LET r == RunRecordValidator(rvs[k], rec)
         IN  CASE r.st = "ok" -> RecordOutcome(rvs, k + 1, r.rec)
               [] r.st = "fail" ->
                    [pc |-> "REJECTED", result |-> Rejected(<<Err("", "CrossFieldError", WholeInput)>>)]
               [] r.st = "raise" -> [pc |-> "RAISED", result |-> NoResult]

\* The error entries of the field outcomes o from the i-th on, in order.
RECURSIVE ErrorsFrom(_, _)
ErrorsFrom(o, i) == IF i > Len(o) THEN <<>> ELSE o[i].errs \o ErrorsFrom(o, i + 1)

\* A call on its own, as a function of the fields fs, the whole-record
\* validators rvs and the input inp (and of what the clock reads): how it
\* ends and what it returns.
CallOutcome(fs, rvs, inp) ==
    LET o == [i \in 1..Len(fs) |-> FieldOutcome(fs[i], inp[i])]
        es == ErrorsFrom(o, 1)
    IN  IF \E i \in 1..Len(fs) : o[i].st = "raise" THEN [pc |-> "RAISED", result |-> NoResult]
        ELSE IF es # <<>> THEN [pc |-> "REJECTED", result |-> Rejected(es)]
        ELSE RecordOutcome(rvs, 1, [i \in 1..Len(fs) |-> [name |-> fs[i].name, v |-> o[i].v]])

\* The caller holds the untouched instance of an earlier call that was given
\* the input of this one.
SameInputAgain == held # NoInstance /\ ~held.touched /\ held.input = input

\* C26 as claimed: two calls with the same class and equal inputs return
\* equal results.
C26_Original ==
    (pc \in Terminal /\ SameInputAgain) => (pc = "ACCEPTED" /\ result.record = held.record)

\* C26 (amended): two calls with the same class and equal inputs made at the
\* same clock reading return equal results; a call does not modify the input
\* it was given (every field was looked up under the value the input still
\* has), and it leaves nothing behind that changes a later call: however many
\* calls went before and whatever instance the caller holds, a call ends as
\* the call on its own does, given the class, the input and the clock reading.
C26_Pure ==
    pc \in Terminal =>
        /\ (SameInputAgain /\ held.at = clock) => (pc = "ACCEPTED" /\ result.record = held.record)
        /\ \A p \in 1..Len(log) : log[p].ev = "visit" => log[p].arg = input[IdxOf(log[p].f)]
        /\ [pc |-> pc, result |-> result] = CallOutcome(Fields, schema.rvs, input)

\* A second Log(...) with the same keyword arguments at the same clock
\* reading has returned the record of the first, the timestamp made anew by
\* the factory.
C26_Witness ==
    /\ pc = "ACCEPTED" /\ calls = 2
    /\ SameInputAgain /\ held.at = clock
    /\ schema = Log
    /\ input[2] = Absent
    /\ result.record = held.record

\* The orders in which n fields can be declared.
Orders(n) == {o \in [1..n -> 1..n] : \A i, j \in 1..n : o[i] = o[j] => i = j}
\* The entries of a sequence, their order put aside.
Entries(sq) == {sq[i] : i \in 1..Len(sq)}
\* The call on the class with its fields declared in the order o, given the
\* same input mapping.
Reordered(o) ==
    CallOutcome([i \in 1..NFields |-> Fields[o[i]]], schema.rvs, [i \in 1..NFields |-> input[o[i]]])

\* C28: the order of the field declarations decides only the order of the
\* errors: a call ends the same way under every order of the class's fields
\* (accepted, rejected or raised), with the same accepted record and the same
\* set of errors, and the errors of a rejected call are in the order of their
\* fields' declarations.
C28_FieldOrder ==
    pc \in Terminal =>
        /\ \A o \in Orders(NFields) :
               LET r == Reordered(o)
               IN  /\ r.pc = pc
                   /\ Entries(r.result.record) = Entries(result.record)
                   /\ Entries(r.result.errors) = Entries(result.errors)
        /\ pc = "REJECTED" =>
               \A p, q \in 1..Len(result.errors) :
                   (p < q /\ result.errors[p].field # "" /\ result.errors[q].field # "")
                       => IdxOf(result.errors[p].field) <= IdxOf(result.errors[q].field)

\* User(username="gi", email="") has been rejected with the error of the
\* username before the error of the email, fields declared in that order.
C28_Witness ==
    /\ pc = "REJECTED"
    /\ schema = User
    /\ Len(result.errors) = 2
    /\ result.errors[1].field = "username" /\ result.errors[2].field = "email"
    /\ \E o \in Orders(NFields) : o[1] = 2 /\ Reordered(o).result.errors[1].field = "email"

====
